---- MODULE Spec2Model ----
(***************************************************************************)
(* The serum_dex instruction codec of crates/raydium:                      *)
(* MarketInstruction::pack (bincode of the pair (0u8, instruction)) and    *)
(* MarketInstruction::unpack (the hand-written dispatcher on               *)
(* (discriminant, payload length)).                                        *)
(*                                                                         *)
(* Bytes are the integers 0..255 and a buffer is a sequence of bytes.      *)
(* An integer wider than 16 bits (u32, u64, i64, u128) is kept as the      *)
(* sequence of its 16-bit limbs, least significant limb first, because the *)
(* model checker's integers are 32 bits wide; i64 is its two's complement  *)
(* bit pattern.  u8 and u16 are plain integers.                            *)
(***************************************************************************)
EXTENDS Integers, Sequences, FiniteSets, TLC

VARIABLES origin, step, command, versioned_bytes, result, repacked, redecoded,
          call, instruction,
          pc, checklist, ok, subscriptions, unsubscribed, elapsed, branch,
          diffs, sol_price, diffs_result

\* the codec and the instruction builders
codec_vars == <<origin, step, command, versioned_bytes, result, repacked, redecoded,
                call, instruction>>

\* run_checks
checker_vars == <<pc, checklist, ok, subscriptions, unsubscribed, elapsed, branch>>

\* process_diffs
diffs_vars == <<diffs, sol_price, diffs_result>>

vars == <<codec_vars, checker_vars, diffs_vars>>

----------------------------------------------------------------------------
(* Sequences of bytes.                                                     *)

Byte == 0..255

Min(a, b) == IF a <= b THEN a ELSE b

\* &s[off .. off + n], for a range that lies inside s
Slice(s, off, n) == SubSeq(s, off + 1, off + n)

\* whether array_ref![s, off, n] / &s[off .. off + n] is inside s; outside
\* it the Rust code panics
InRange(s, off, n) == off + n <= Len(s)

RECURSIVE Flatten(_)
\* [a, b, ...].concat()
Flatten(ss) == IF ss = <<>> THEN <<>> ELSE Head(ss) \o Flatten(Tail(ss))

\* slice::chunks_exact(n): the whole chunks of n bytes, the remainder dropped
chunks_exact(s, n) == [i \in 1..(Len(s) \div n) |-> Slice(s, (i - 1) * n, n)]

\* uN::from_le_bytes for N in {32, 64, 128}: the limbs of the value
from_le_bytes(b) == [i \in 1..(Len(b) \div 2) |-> b[2 * i - 1] + 256 * b[2 * i]]

\* uN::to_le_bytes for N in {32, 64, 128}
to_le_bytes(v) ==
    [i \in 1..(2 * Len(v)) |->
        IF i % 2 = 1 THEN v[(i + 1) \div 2] % 256 ELSE v[i \div 2] \div 256]

\* the two bytes read most significant first
u16_from_be_bytes(b) == b[1] * 256 + b[2]

u16_from_le_bytes(b) == b[1] + 256 * b[2]

u16_to_le_bytes(x) == <<x % 256, x \div 256>>

\* a small natural number as a value of `limbs` limbs (usize as u64, 0u32, ...)
Wide(n, limbs) ==
    [i \in 1..limbs |-> IF i = 1 THEN n % 65536 ELSE IF i = 2 THEN n \div 65536 ELSE 0]

IsZero(v) == \A i \in 1..Len(v) : v[i] = 0

\* i64::MAX
I64_MAX == <<65535, 65535, 65535, 32767>>

----------------------------------------------------------------------------
(* Option, and the three ways a call of unpack can end.                    *)

NoValue == <<>>

Some(x) == [kind |-> "Some", val |-> x]

None == [kind |-> "None", val |-> NoValue]

\* a panic of the call (an index out of range, an unwrap of None / Err)
Panic == [kind |-> "Panic", val |-> NoValue]

IsSome(o) == o.kind = "Some"

IsNone(o) == o.kind = "None"

IsPanic(o) == o.kind = "Panic"

----------------------------------------------------------------------------
(* The enums: Side and OrderType (serum_dex::matching) and                 *)
(* SelfTradeBehavior.  Each is repr(u8) with TryFromPrimitive, and serde   *)
(* writes a unit variant as its index in the declaration.                  *)

SideCodes == <<"Bid", "Ask">>

OrderTypeCodes == <<"Limit", "ImmediateOrCancel", "PostOnly">>

SelfTradeBehaviorCodes == <<"DecrementTake", "CancelProvide", "AbortTransaction">>

\* E::try_from_primitive(x: u8).ok() for an enum whose codes are 0, 1, ...
try_from_primitive(codes, x) == IF x < Len(codes) THEN Some(codes[x + 1]) ELSE None

\* u32 -> u8 by truncation (`as u8`): the upper three bytes dropped
u32_try_into_u8_Truncating(v) == Some(v[1] % 256)

\* u32 -> u8 `try_into().ok()`: fails above 255
u32_try_into_u8(v) == IF v[2] = 0 /\ v[1] <= 255 THEN Some(v[1]) ELSE None

\* E::try_from_primitive(u32::from_le_bytes(arr).try_into().ok()?).ok()
enum_from_u32_le(codes, arr) ==
    LET narrowed == u32_try_into_u8(from_le_bytes(arr))
    IN  IF ~IsSome(narrowed) THEN None ELSE try_from_primitive(codes, narrowed.val)

\* the index of a variant in its enum's declaration
IndexOf(codes, name) == (CHOOSE i \in 1..Len(codes) : codes[i] = name) - 1

\* the match with its last arm a default: `_ => <first variant>`
match_u32_Defaulting(codes, arr) ==
    LET v == from_le_bytes(arr)
    IN  IF v[2] = 0 /\ v[1] < Len(codes) THEN Some(codes[v[1] + 1]) ELSE Some(codes[1])

\* `match u32::from_le_bytes(arr) { 0 => .., 1 => .., _ => return None }`
match_u32(codes, arr) ==
    LET v == from_le_bytes(arr)
    IN  IF v[2] = 0 /\ v[1] < Len(codes) THEN Some(codes[v[1] + 1]) ELSE None

\* NonZeroU64::new without its check: the field read as a plain u64
NonZeroU64_new_Unchecked(v) == Some(v)

\* NonZeroU64::new
NonZeroU64_new(v) == IF IsZero(v) THEN None ELSE Some(v)

----------------------------------------------------------------------------
(* The variants of MarketInstruction, in the order of their declaration:   *)
(* serde names a variant by its index in this order.                       *)

Variants ==
    << "InitializeMarket", "NewOrder", "MatchOrders", "ConsumeEvents",
       "CancelOrder", "SettleFunds", "CancelOrderByClientId", "DisableMarket",
       "SweepFees", "NewOrderV2", "NewOrderV3", "CancelOrderV2",
       "CancelOrderByClientIdV2", "SendTake", "CloseOpenOrders",
       "InitOpenOrders", "Prune", "ConsumeEventsPermissioned",
       "CancelOrdersByClientIds", "ReplaceOrderByClientId",
       "ReplaceOrdersByClientIds" >>

\* MarketInstruction::Tag(v); a unit variant carries NoValue
Instr(tag, v) == [tag |-> tag, v |-> v]

Unit(tag) == Instr(tag, NoValue)

\* a == b for two instructions (the payloads of two variants are not compared)
SameInstr(a, b) == a.tag = b.tag /\ a.v = b.v

\* a == b for two results of unpack
SameResult(a, b) == a.kind = b.kind /\ (IsSome(a) => SameInstr(a.val, b.val))

----------------------------------------------------------------------------
(* The per-struct decoders.  Their argument is a fixed-size array, so the  *)
(* array_refs! split inside them cannot be out of range.                   *)

SendTakeInstruction_unpack(data) ==
    LET side_arr == Slice(data, 0, 4)
        price_arr == Slice(data, 4, 8)
        max_coin_qty_arr == Slice(data, 12, 8)
        max_native_pc_qty_arr == Slice(data, 20, 8)
        min_coin_qty_arr == Slice(data, 28, 8)
        min_native_pc_qty_arr == Slice(data, 36, 8)
        limit_arr == Slice(data, 44, 2)
        side == enum_from_u32_le(SideCodes, side_arr)
        limit_price == NonZeroU64_new(from_le_bytes(price_arr))
        max_coin_qty == NonZeroU64_new(from_le_bytes(max_coin_qty_arr))
        max_native_pc_qty_including_fees ==
            NonZeroU64_new(from_le_bytes(max_native_pc_qty_arr))
    IN  IF ~IsSome(side) THEN None
        ELSE IF ~IsSome(limit_price) THEN None
        ELSE IF ~IsSome(max_coin_qty) THEN None
        ELSE IF ~IsSome(max_native_pc_qty_including_fees) THEN None
        ELSE Some([ side |-> side.val,
                    limit_price |-> limit_price.val,
                    max_coin_qty |-> max_coin_qty.val,
                    max_native_pc_qty_including_fees |->
                        max_native_pc_qty_including_fees.val,
                    min_coin_qty |-> from_le_bytes(min_coin_qty_arr),
                    min_native_pc_qty |-> from_le_bytes(min_native_pc_qty_arr),
                    limit |-> u16_from_le_bytes(limit_arr) ])

NewOrderInstructionV3_unpack(data) ==
    LET side_arr == Slice(data, 0, 4)
        price_arr == Slice(data, 4, 8)
        max_coin_qty_arr == Slice(data, 12, 8)
        max_native_pc_qty_arr == Slice(data, 20, 8)
        self_trade_behavior_arr == Slice(data, 28, 4)
        otype_arr == Slice(data, 32, 4)
        client_order_id_bytes == Slice(data, 36, 8)
        limit_arr == Slice(data, 44, 2)
        max_ts == Slice(data, 46, 8)
        side == enum_from_u32_le(SideCodes, side_arr)
        limit_price == NonZeroU64_new(from_le_bytes(price_arr))
        max_coin_qty == NonZeroU64_new(from_le_bytes(max_coin_qty_arr))
        max_native_pc_qty_including_fees ==
            NonZeroU64_new(from_le_bytes(max_native_pc_qty_arr))
        self_trade_behavior ==
            enum_from_u32_le(SelfTradeBehaviorCodes, self_trade_behavior_arr)
        order_type == enum_from_u32_le(OrderTypeCodes, otype_arr)
    IN  IF ~IsSome(side) THEN None
        ELSE IF ~IsSome(limit_price) THEN None
        ELSE IF ~IsSome(max_coin_qty) THEN None
        ELSE IF ~IsSome(max_native_pc_qty_including_fees) THEN None
        ELSE IF ~IsSome(self_trade_behavior) THEN None
        ELSE IF ~IsSome(order_type) THEN None
        ELSE Some([ side |-> side.val,
                    limit_price |-> limit_price.val,
                    max_coin_qty |-> max_coin_qty.val,
                    max_native_pc_qty_including_fees |->
                        max_native_pc_qty_including_fees.val,
                    self_trade_behavior |-> self_trade_behavior.val,
                    order_type |-> order_type.val,
                    client_order_id |-> from_le_bytes(client_order_id_bytes),
                    limit |-> u16_from_le_bytes(limit_arr),
                    max_ts |-> from_le_bytes(max_ts) ])

NewOrderInstructionV1_unpack(data) ==
    LET side_arr == Slice(data, 0, 4)
        price_arr == Slice(data, 4, 8)
        max_qty_arr == Slice(data, 12, 8)
        otype_arr == Slice(data, 20, 4)
        client_id_bytes == Slice(data, 24, 8)
        client_id == from_le_bytes(client_id_bytes)
        side == match_u32(SideCodes, side_arr)
        limit_price == NonZeroU64_new(from_le_bytes(price_arr))
        max_qty == NonZeroU64_new(from_le_bytes(max_qty_arr))
        order_type == match_u32(OrderTypeCodes, otype_arr)
    IN  IF ~IsSome(side) THEN None
        ELSE IF ~IsSome(limit_price) THEN None
        ELSE IF ~IsSome(max_qty) THEN None
        ELSE IF ~IsSome(order_type) THEN None
        ELSE Some([ side |-> side.val,
                    limit_price |-> limit_price.val,
                    max_qty |-> max_qty.val,
                    order_type |-> order_type.val,
                    client_id |-> client_id ])

\* NewOrderInstructionV1::add_self_trade_behavior
\* the V2 order built without carrying the client id over
add_self_trade_behavior_NoClientId(v1, self_trade_behavior) ==
    [ side |-> v1.side,
      limit_price |-> v1.limit_price,
      max_qty |-> v1.max_qty,
      order_type |-> v1.order_type,
      client_id |-> <<0, 0, 0, 0>>,
      self_trade_behavior |-> self_trade_behavior ]

add_self_trade_behavior(v1, self_trade_behavior) ==
    [ side |-> v1.side,
      limit_price |-> v1.limit_price,
      max_qty |-> v1.max_qty,
      order_type |-> v1.order_type,
      client_id |-> v1.client_id,
      self_trade_behavior |-> self_trade_behavior ]

CancelOrderInstructionV2_unpack(data) ==
    LET side_arr == Slice(data, 0, 4)
        oid_arr == Slice(data, 4, 16)
        side == enum_from_u32_le(SideCodes, side_arr)
    IN  IF ~IsSome(side) THEN None
        ELSE Some([side |-> side.val, order_id |-> from_le_bytes(oid_arr)])

----------------------------------------------------------------------------
(* MarketInstruction::unpack.                                              *)

\* `inner?` wrapped in a variant
Wrap(tag, inner) == IF IsSome(inner) THEN Some(Instr(tag, inner.val)) ELSE None

\* the table with the 46-byte legacy length under discriminant 19
FixedLen_Legacy19 ==
    [d \in {0, 1, 2, 3, 4, 5, 6, 7, 8, 9, 11, 12, 13, 14, 15, 16, 17, 19} |->
        CASE d = 0 -> 34
          [] d = 1 -> 32
          [] d \in {2, 3, 16, 17} -> 2
          [] d = 4 -> 53
          [] d \in {5, 7, 8, 14, 15} -> 0
          [] d \in {6, 12} -> 8
          [] d = 9 -> 36
          [] d = 11 -> 20
          [] d = 13 -> 46
          [] d = 19 -> 46]

\* the payload length of the arms whose pattern is `(d, <literal>)`
FixedLen ==
    [d \in {0, 1, 2, 3, 4, 5, 6, 7, 8, 9, 11, 12, 13, 14, 15, 16, 17, 19} |->
        CASE d = 0 -> 34
          [] d = 1 -> 32
          [] d \in {2, 3, 16, 17} -> 2
          [] d = 4 -> 53
          [] d \in {5, 7, 8, 14, 15} -> 0
          [] d \in {6, 12} -> 8
          [] d = 9 -> 36
          [] d = 11 -> 20
          [] d = 13 -> 46
          [] d = 19 -> 54]

\* a length test that asks for enough bytes instead of the exact length
LenIs_AtLeast(len, n) == len >= n

\* a literal length in a pattern matches that length alone
LenIs(len, n) == len = n

\* `(10, len) if len == 46 || len == 54`
Guard10(len) == len = 46 \/ len = 54

\* the guard of discriminant 18 without its upper bound
Guard18_Unbounded(len) == len % 8 = 0

\* `(18, len) if len % 8 == 0 && len <= 8 * 8`
Guard18(len) == len % 8 = 0 /\ len <= 8 * 8

\* `(20, len) if len % 54 == 8 && len <= 8 + 8 * 54`
Guard20(len) == len % 54 = 8 /\ len <= 8 + 8 * 54

\* the patterns and guards of `match (discrim, data.len())`: whether some
\* arm other than the final `_ => return None` is taken
ArmTaken(d, len) ==
    CASE d = 10 -> Guard10(len)
      [] d = 18 -> Guard18(len)
      [] d = 20 -> Guard20(len)
      [] d \in DOMAIN FixedLen -> LenIs(len, FixedLen[d])
      [] OTHER -> FALSE

unpack_InitializeMarket(data) ==
    IF ~InRange(data, 0, 34) THEN Panic
    ELSE LET data_array == Slice(data, 0, 34)
         IN  Some(Instr("InitializeMarket",
                 [ coin_lot_size |-> from_le_bytes(Slice(data_array, 0, 8)),
                   pc_lot_size |-> from_le_bytes(Slice(data_array, 8, 8)),
                   fee_rate_bps |-> u16_from_le_bytes(Slice(data_array, 16, 2)),
                   vault_signer_nonce |-> from_le_bytes(Slice(data_array, 18, 8)),
                   pc_dust_threshold |-> from_le_bytes(Slice(data_array, 26, 8)) ]))

unpack_NewOrder(data) ==
    IF ~InRange(data, 0, 32) THEN Panic
    ELSE Wrap("NewOrder", NewOrderInstructionV1_unpack(Slice(data, 0, 32)))

\* MatchOrders, ConsumeEvents, Prune, ConsumeEventsPermissioned
unpack_limit(tag, data) ==
    IF ~InRange(data, 0, 2) THEN Panic
    ELSE Some(Instr(tag, u16_from_le_bytes(Slice(data, 0, 2))))

unpack_CancelOrder(data) ==
    IF ~InRange(data, 0, 53) THEN Panic
    ELSE LET data_array == Slice(data, 0, 53)
             side == match_u32(SideCodes, Slice(data_array, 0, 4))
             owner_bytes == Slice(data_array, 20, 32)
         IN  IF ~IsSome(side) THEN None
             ELSE Some(Instr("CancelOrder",
                     [ side |-> side.val,
                       order_id |-> from_le_bytes(Slice(data_array, 4, 16)),
                       \* bytemuck::cast::<[u8; 32], [u64; 4]>, on a
                       \* little-endian target
                       owner |-> [i \in 1..4 |->
                                    from_le_bytes(Slice(owner_bytes, (i - 1) * 8, 8))],
                       owner_slot |-> data_array[53] ]))

\* the client id read as a NonZeroU64
unpack_client_id_NonZero(tag, data) ==
    IF ~InRange(data, 0, 8) THEN Panic
    ELSE LET client_id == NonZeroU64_new(from_le_bytes(Slice(data, 0, 8)))
         IN  IF IsSome(client_id) THEN Some(Instr(tag, client_id.val)) ELSE None

\* CancelOrderByClientId, CancelOrderByClientIdV2
unpack_client_id(tag, data) ==
    IF ~InRange(data, 0, 8) THEN Panic
    ELSE Some(Instr(tag, from_le_bytes(Slice(data, 0, 8))))

unpack_NewOrderV2(data) ==
    IF ~InRange(data, 0, 36) THEN Panic
    ELSE LET data_arr == Slice(data, 0, 36)
             v1_data_arr == Slice(data_arr, 0, 32)
             v2_data_arr == Slice(data_arr, 32, 4)
             v1_instr == NewOrderInstructionV1_unpack(v1_data_arr)
             self_trade_behavior ==
                 enum_from_u32_le(SelfTradeBehaviorCodes, v2_data_arr)
         IN  IF ~IsSome(v1_instr) THEN None
             ELSE IF ~IsSome(self_trade_behavior) THEN None
             ELSE Some(Instr("NewOrderV2",
                     add_self_trade_behavior(v1_instr.val, self_trade_behavior.val)))

\* the legacy shim filling the missing expiry with zero bytes
extended_data_Zeroed(data) ==
    CASE Len(data) = 46 -> Some(Flatten(<<data, to_le_bytes(<<0, 0, 0, 0>>)>>))
      [] Len(data) = 54 -> Some(data)
      [] OTHER -> None

\* the bytes handed to NewOrderInstructionV3::unpack under discriminant 10
extended_data(data) ==
    CASE Len(data) = 46 -> Some(Flatten(<<data, to_le_bytes(I64_MAX)>>))
      [] Len(data) = 54 -> Some(data)
      [] OTHER -> None

unpack_NewOrderV3(data) ==
    LET extended == extended_data(data)
    IN  IF ~IsSome(extended) THEN None
        ELSE IF ~InRange(extended.val, 0, 54) THEN Panic
        ELSE Wrap("NewOrderV3",
                  NewOrderInstructionV3_unpack(Slice(extended.val, 0, 54)))

unpack_CancelOrderV2(data) ==
    IF ~InRange(data, 0, 20) THEN Panic
    ELSE Wrap("CancelOrderV2", CancelOrderInstructionV2_unpack(Slice(data, 0, 20)))

unpack_SendTake(data) ==
    IF ~InRange(data, 0, 46) THEN Panic
    ELSE Wrap("SendTake", SendTakeInstruction_unpack(Slice(data, 0, 46)))

\* the ids collected into a list as long as the payload has ids
unpack_CancelOrdersByClientIds_Unpadded(data) ==
    LET chunks == chunks_exact(data, 8)
    IN  Some(Instr("CancelOrdersByClientIds",
            [i \in 1..Len(chunks) |-> from_le_bytes(chunks[i])]))

\* `data.chunks_exact(8).zip(client_ids.iter_mut())` over `[0; 8]`
unpack_CancelOrdersByClientIds(data) ==
    LET chunks == chunks_exact(data, 8)
    IN  Some(Instr("CancelOrdersByClientIds",
            [i \in 1..8 |->
                IF i <= Len(chunks) THEN from_le_bytes(chunks[i]) ELSE Wide(0, 4)]))

unpack_ReplaceOrderByClientId(data) ==
    IF ~InRange(data, 0, 54) THEN Panic
    ELSE Wrap("ReplaceOrderByClientId",
              NewOrderInstructionV3_unpack(Slice(data, 0, 54)))

\* the count check as an upper bound: a count below the record count passes
CountMatches_AtMost(data) ==
    LET count == from_le_bytes(Slice(data, 0, 8))
    IN  /\ count[2] = 0 /\ count[3] = 0 /\ count[4] = 0
        /\ count[1] <= (Len(data) - 8) \div 54

\* u64::from_le_bytes(data[0..8]) == (data.len() as u64 - 8) / 54
CountMatches(data) ==
    from_le_bytes(Slice(data, 0, 8)) = Wide((Len(data) - 8) \div 54, 4)

\* the batch decoder dropping the records that fail instead of failing
unpack_ReplaceOrdersByClientIds_Lenient(data) ==
    IF ~InRange(data, 0, 8) THEN Panic
    ELSE IF ~CountMatches(data) THEN None
    ELSE LET chunks == chunks_exact(Slice(data, 8, Len(data) - 8), 54)
             new_orders == [i \in 1..Len(chunks) |->
                               NewOrderInstructionV3_unpack(chunks[i])]
             kept == SelectSeq(new_orders, IsSome)
         IN  Some(Instr("ReplaceOrdersByClientIds",
                 [i \in 1..Len(kept) |-> kept[i].val]))

unpack_ReplaceOrdersByClientIds(data) ==
    IF ~InRange(data, 0, 8) THEN Panic
    ELSE IF ~CountMatches(data) THEN None
    ELSE LET chunks == chunks_exact(Slice(data, 8, Len(data) - 8), 54)
             new_orders == [i \in 1..Len(chunks) |->
                               NewOrderInstructionV3_unpack(chunks[i])]
         IN  \* collect::<Option<Vec<_>>>()?
             IF \E i \in 1..Len(chunks) : ~IsSome(new_orders[i]) THEN None
             ELSE Some(Instr("ReplaceOrdersByClientIds",
                     [i \in 1..Len(chunks) |-> new_orders[i].val]))

\* the arm of discriminant d, for a (d, Len(data)) that takes one
Arm(d, data) ==
    CASE d = 0 -> unpack_InitializeMarket(data)
      [] d = 1 -> unpack_NewOrder(data)
      [] d = 2 -> unpack_limit("MatchOrders", data)
      [] d = 3 -> unpack_limit("ConsumeEvents", data)
      [] d = 4 -> unpack_CancelOrder(data)
      [] d = 5 -> Some(Unit("SettleFunds"))
      [] d = 6 -> unpack_client_id("CancelOrderByClientId", data)
      [] d = 7 -> Some(Unit("DisableMarket"))
      [] d = 8 -> Some(Unit("SweepFees"))
      [] d = 9 -> unpack_NewOrderV2(data)
      [] d = 10 -> unpack_NewOrderV3(data)
      [] d = 11 -> unpack_CancelOrderV2(data)
      [] d = 12 -> unpack_client_id("CancelOrderByClientIdV2", data)
      [] d = 13 -> unpack_SendTake(data)
      [] d = 14 -> Some(Unit("CloseOpenOrders"))
      [] d = 15 -> Some(Unit("InitOpenOrders"))
      [] d = 16 -> unpack_limit("Prune", data)
      [] d = 17 -> unpack_limit("ConsumeEventsPermissioned", data)
      [] d = 18 -> unpack_CancelOrdersByClientIds(data)
      [] d = 19 -> unpack_ReplaceOrderByClientId(data)
      [] d = 20 -> unpack_ReplaceOrdersByClientIds(data)

\* the envelope check without its lower bound
EnvelopeOutOfBounds_NoLower(len) == len > 5 + 8 + 54 * 8

\* the envelope check with its lower bound off by one
EnvelopeOutOfBounds_OffByOne(len) == len < 4 \/ len > 5 + 8 + 54 * 8

\* the first check of unpack: the envelope's length
EnvelopeOutOfBounds(len) == len < 5 \/ len > 5 + 8 + 54 * 8

\* the match on the low byte of discrim alone (`discrim as u8`)
Dispatch_LowByte(discrim, data) ==
    IF ~ArmTaken(discrim[1] % 256, Len(data)) THEN None
    ELSE Arm(discrim[1] % 256, data)

\* `match (discrim, data.len())`, discrim a u32
Dispatch(discrim, data) ==
    IF discrim[2] # 0 THEN None
    ELSE IF ~ArmTaken(discrim[1], Len(data)) THEN None
    ELSE Arm(discrim[1], data)

unpack(bytes) ==
    IF EnvelopeOutOfBounds(Len(bytes)) THEN None
    \* array_refs![versioned_bytes, 1, 4; ..;]
    ELSE IF ~InRange(bytes, 0, 5) THEN Panic
    ELSE LET version == bytes[1]
             discrim == from_le_bytes(Slice(bytes, 1, 4))
             data == Slice(bytes, 5, Len(bytes) - 5)
         IN  IF version # 0 THEN None ELSE Dispatch(discrim, data)

----------------------------------------------------------------------------
(* MarketInstruction::pack: bincode::serialize(&(0u8, self)) over the      *)
(* derived Serialize impls.  bincode's default options write integers in   *)
(* fixed width, little-endian; an enum variant as its index in a u32; a    *)
(* struct, tuple or array as its fields in order with no prefix; a Vec as  *)
(* its length in a u64 followed by its elements.                           *)

ser_u8(x) == <<x>>

\* a u16 written into one output element followed by a zero
ser_u16_Unsplit(x) == <<x, 0>>

ser_u16(x) == u16_to_le_bytes(x)

\* u32, u64, NonZeroU64, i64, u128
ser_int(v) == to_le_bytes(v)

\* a unit variant written as its index in one byte
ser_enum_OneByte(codes, name) == ser_u8(IndexOf(codes, name))

\* a unit variant of Side, OrderType or SelfTradeBehavior
ser_enum(codes, name) == ser_int(Wide(IndexOf(codes, name), 2))

\* [u64; N]: the elements, no length
ser_u64_array(xs) == Flatten([i \in 1..Len(xs) |-> ser_int(xs[i])])

\* the length of a Vec written as a u32
ser_len_U32(n) == ser_int(Wide(n, 2))

\* the length of a Vec, a usize written as a u64
ser_len(n) == ser_int(Wide(n, 4))

ser_InitializeMarketInstruction(i) ==
    Flatten(<< ser_int(i.coin_lot_size),
               ser_int(i.pc_lot_size),
               ser_u16(i.fee_rate_bps),
               ser_int(i.vault_signer_nonce),
               ser_int(i.pc_dust_threshold) >>)

ser_SendTakeInstruction(i) ==
    Flatten(<< ser_enum(SideCodes, i.side),
               ser_int(i.limit_price),
               ser_int(i.max_coin_qty),
               ser_int(i.max_native_pc_qty_including_fees),
               ser_int(i.min_coin_qty),
               ser_int(i.min_native_pc_qty),
               ser_u16(i.limit) >>)

\* the fields of NewOrderInstructionV3 with order_type before
\* self_trade_behavior, as they come in NewOrderInstructionV2
ser_NewOrderInstructionV3_Swapped(i) ==
    Flatten(<< ser_enum(SideCodes, i.side),
               ser_int(i.limit_price),
               ser_int(i.max_coin_qty),
               ser_int(i.max_native_pc_qty_including_fees),
               ser_enum(OrderTypeCodes, i.order_type),
               ser_enum(SelfTradeBehaviorCodes, i.self_trade_behavior),
               ser_int(i.client_order_id),
               ser_u16(i.limit),
               ser_int(i.max_ts) >>)

ser_NewOrderInstructionV3(i) ==
    Flatten(<< ser_enum(SideCodes, i.side),
               ser_int(i.limit_price),
               ser_int(i.max_coin_qty),
               ser_int(i.max_native_pc_qty_including_fees),
               ser_enum(SelfTradeBehaviorCodes, i.self_trade_behavior),
               ser_enum(OrderTypeCodes, i.order_type),
               ser_int(i.client_order_id),
               ser_u16(i.limit),
               ser_int(i.max_ts) >>)

ser_NewOrderInstructionV2(i) ==
    Flatten(<< ser_enum(SideCodes, i.side),
               ser_int(i.limit_price),
               ser_int(i.max_qty),
               ser_enum(OrderTypeCodes, i.order_type),
               ser_int(i.client_id),
               ser_enum(SelfTradeBehaviorCodes, i.self_trade_behavior) >>)

ser_NewOrderInstructionV1(i) ==
    Flatten(<< ser_enum(SideCodes, i.side),
               ser_int(i.limit_price),
               ser_int(i.max_qty),
               ser_enum(OrderTypeCodes, i.order_type),
               ser_int(i.client_id) >>)

\* Vec<NewOrderInstructionV3>: the length, then the elements
ser_Vec_NewOrderInstructionV3(xs) ==
    ser_len(Len(xs))
        \o Flatten([i \in 1..Len(xs) |-> ser_NewOrderInstructionV3(xs[i])])

ser_CancelOrderInstructionV2(i) ==
    Flatten(<< ser_enum(SideCodes, i.side), ser_int(i.order_id) >>)

ser_CancelOrderInstruction(i) ==
    Flatten(<< ser_enum(SideCodes, i.side),
               ser_int(i.order_id),
               ser_u64_array(i.owner),
               ser_u8(i.owner_slot) >>)

\* the payload of a variant: what follows the variant's index
ser_payload(c) ==
    CASE c.tag = "InitializeMarket" -> ser_InitializeMarketInstruction(c.v)
      [] c.tag = "NewOrder" -> ser_NewOrderInstructionV1(c.v)
      [] c.tag \in {"MatchOrders", "ConsumeEvents", "Prune",
                    "ConsumeEventsPermissioned"} -> ser_u16(c.v)
      [] c.tag = "CancelOrder" -> ser_CancelOrderInstruction(c.v)
      [] c.tag \in {"CancelOrderByClientId", "CancelOrderByClientIdV2"} ->
            ser_int(c.v)
      [] c.tag = "NewOrderV2" -> ser_NewOrderInstructionV2(c.v)
      [] c.tag \in {"NewOrderV3", "ReplaceOrderByClientId"} ->
            ser_NewOrderInstructionV3(c.v)
      [] c.tag = "CancelOrderV2" -> ser_CancelOrderInstructionV2(c.v)
      [] c.tag = "SendTake" -> ser_SendTakeInstruction(c.v)
      [] c.tag = "CancelOrdersByClientIds" -> ser_u64_array(c.v)
      [] c.tag = "ReplaceOrdersByClientIds" ->
            ser_Vec_NewOrderInstructionV3(c.v)
      [] OTHER -> <<>>

\* NewOrderV3 written under the index of NewOrderV2
ser_MarketInstruction_Legacy(c) ==
    ser_int(Wide(IF c.tag = "NewOrderV3" THEN 9 ELSE IndexOf(Variants, c.tag), 2))
        \o ser_payload(c)

ser_MarketInstruction(c) ==
    ser_int(Wide(IndexOf(Variants, c.tag), 2)) \o ser_payload(c)

\* the instruction serialized without the version byte
pack_Unversioned(c) == ser_MarketInstruction(c)

pack(c) == ser_u8(0) \o ser_MarketInstruction(c)

----------------------------------------------------------------------------
(* Bounds of the inputs.                                                   *)

\* the longest list of a ReplaceOrdersByClientIds command that is packed,
\* and the largest record count of a raw discriminant-20 payload
MaxOrders == 9

\* raw payloads of every length 0..MaxPayloadLen are fed to every discriminant
MaxPayloadLen == 495

\* raw buffers of every length 0..MaxShortLen over SmallBytes are fed whole
MaxShortLen == 4

\* the discriminants 0..MaxDiscrim are fed (20 is the last known one)
MaxDiscrim == 21

\* the builders are called with up to MaxOpenOrders open-orders accounts
MaxOpenOrders == 3

----------------------------------------------------------------------------
(* Sample field values.                                                    *)

U64_ZERO == Wide(0, 4)

\* 0x0807060504030201: every byte differs
U64_A == <<513, 1027, 1541, 2055>>

U64_B == <<4369, 8738, 13107, 17476>>

U64_C == <<43981, 0, 0, 0>>

\* 1 << 63: only the last byte is set; as an i64 it is i64::MIN
U64_TOP == <<0, 0, 0, 32768>>

U64_MAX == <<65535, 65535, 65535, 65535>>

U128_A == <<513, 1027, 1541, 2055, 2569, 3083, 3597, 4111>>

U128_TOP == <<0, 0, 0, 0, 0, 0, 0, 32768>>

Sides == {"Bid", "Ask"}

OrderTypes == {"Limit", "ImmediateOrCancel", "PostOnly"}

SelfTradeBehaviors == {"DecrementTake", "CancelProvide", "AbortTransaction"}

OrderA ==
    [ side |-> "Bid", limit_price |-> U64_A, max_coin_qty |-> U64_B,
      max_native_pc_qty_including_fees |-> U64_TOP,
      self_trade_behavior |-> "CancelProvide", order_type |-> "PostOnly",
      client_order_id |-> U64_C, limit |-> 513, max_ts |-> U64_TOP ]

OrderB ==
    [ side |-> "Ask", limit_price |-> U64_TOP, max_coin_qty |-> U64_A,
      max_native_pc_qty_including_fees |-> U64_B,
      self_trade_behavior |-> "AbortTransaction",
      order_type |-> "ImmediateOrCancel",
      client_order_id |-> U64_ZERO, limit |-> 65535, max_ts |-> I64_MAX ]

\* lists of n elements, all y except for at most one x
ListsOf(x, y, n) == {[i \in 1..n |-> IF i = k THEN x ELSE y] : k \in 0..n}

----------------------------------------------------------------------------
(* The commands that are packed: values of every variant.                  *)

InitializeMarketInstructions ==
    [ coin_lot_size : {U64_ZERO, U64_A}, pc_lot_size : {U64_ZERO, U64_B},
      fee_rate_bps : {0, 513}, vault_signer_nonce : {U64_ZERO, U64_TOP},
      pc_dust_threshold : {U64_ZERO, U64_C} ]

NewOrderInstructionsV1 ==
    [ side : Sides, limit_price : {U64_A, U64_TOP}, max_qty : {U64_B, U64_C},
      order_type : OrderTypes, client_id : {U64_ZERO, U64_MAX} ]

NewOrderInstructionsV2 ==
    [ side : Sides, limit_price : {U64_A, U64_TOP}, max_qty : {U64_B, U64_C},
      order_type : OrderTypes, client_id : {U64_ZERO, U64_MAX},
      self_trade_behavior : SelfTradeBehaviors ]

NewOrderInstructionsV3 ==
    [ side : Sides, limit_price : {U64_A, U64_TOP}, max_coin_qty : {U64_B},
      max_native_pc_qty_including_fees : {U64_TOP, U64_C},
      self_trade_behavior : SelfTradeBehaviors, order_type : OrderTypes,
      client_order_id : {U64_ZERO, U64_C}, limit : {0, 513},
      max_ts : {U64_ZERO, U64_TOP, I64_MAX} ]

SendTakeInstructions ==
    [ side : Sides, limit_price : {U64_A, U64_TOP}, max_coin_qty : {U64_B, U64_C},
      max_native_pc_qty_including_fees : {U64_TOP, U64_C},
      min_coin_qty : {U64_ZERO, U64_A}, min_native_pc_qty : {U64_ZERO, U64_MAX},
      limit : {0, 513} ]

CancelOrderInstructionsV2 == [side : Sides, order_id : {Wide(0, 8), U128_A, U128_TOP}]

CancelOrderInstructions ==
    [ side : Sides, order_id : {Wide(0, 8), U128_A},
      owner : {<<U64_ZERO, U64_ZERO, U64_ZERO, U64_ZERO>>,
               <<U64_A, U64_B, U64_C, U64_TOP>>},
      owner_slot : {0, 255} ]

ClientIdArrays ==
    UNION {ListsOf(p[1], p[2], 8) : p \in {<<U64_A, U64_ZERO>>, <<U64_ZERO, U64_B>>}}

OrderLists ==
    UNION {ListsOf(p[1][1], p[1][2], p[2]) :
              p \in {<<OrderA, OrderB>>, <<OrderB, OrderA>>} \X (0..MaxOrders)}

\* the values of one variant that are packed
CommandsOf(tag) ==
    CASE tag = "InitializeMarket" -> InitializeMarketInstructions
      [] tag = "NewOrder" -> NewOrderInstructionsV1
      [] tag \in {"MatchOrders", "ConsumeEvents", "Prune",
                  "ConsumeEventsPermissioned"} -> {0, 513, 65535}
      [] tag = "CancelOrder" -> CancelOrderInstructions
      [] tag \in {"CancelOrderByClientId", "CancelOrderByClientIdV2"} ->
            {U64_ZERO, U64_A, U64_TOP}
      [] tag = "NewOrderV2" -> NewOrderInstructionsV2
      [] tag \in {"NewOrderV3", "ReplaceOrderByClientId"} -> NewOrderInstructionsV3
      [] tag = "CancelOrderV2" -> CancelOrderInstructionsV2
      [] tag = "SendTake" -> SendTakeInstructions
      [] tag = "CancelOrdersByClientIds" -> ClientIdArrays
      [] tag = "ReplaceOrdersByClientIds" -> OrderLists
      [] OTHER -> {NoValue}

----------------------------------------------------------------------------
(* The raw buffers that are unpacked: any bytes may arrive.  They are      *)
(* built field by field, with values the decoder must refuse among them.   *)

\* a u32 code as its four bytes
Code(n) == to_le_bytes(Wide(n, 2))

\* 0x01000001: a valid low byte under a set top byte
CODE_HIGH == to_le_bytes(<<1, 256>>)

Bytes64(S) == {to_le_bytes(v) : v \in S}

RawSides == {Code(0), Code(1), Code(2), Code(257)}

RawSelfTradeBehaviors == {Code(0), Code(2), Code(3), Code(256)}

RawOrderTypes == {Code(1), Code(2), Code(3), CODE_HIGH}

RawV3(r) ==
    Flatten(<< r.side, r.limit_price, r.max_coin_qty,
               r.max_native_pc_qty_including_fees, r.self_trade_behavior,
               r.order_type, r.client_order_id, r.limit, r.max_ts >>)

RawV3Records ==
    {RawV3(r) : r \in
        [ side : RawSides, limit_price : Bytes64({U64_ZERO, U64_A}),
          max_coin_qty : Bytes64({U64_ZERO, U64_TOP}),
          max_native_pc_qty_including_fees : Bytes64({U64_ZERO, U64_B}),
          self_trade_behavior : RawSelfTradeBehaviors, order_type : RawOrderTypes,
          client_order_id : Bytes64({U64_C}), limit : {u16_to_le_bytes(513)},
          max_ts : Bytes64({U64_TOP}) ]
        \cup
        [ side : {Code(1)}, limit_price : Bytes64({U64_A}),
          max_coin_qty : Bytes64({U64_TOP}),
          max_native_pc_qty_including_fees : Bytes64({U64_B}),
          self_trade_behavior : {Code(2)}, order_type : {Code(0)},
          client_order_id : Bytes64({U64_ZERO, U64_C, U64_MAX}),
          limit : {u16_to_le_bytes(l) : l \in {0, 513, 65535}},
          max_ts : Bytes64({U64_ZERO, U64_TOP, I64_MAX, U64_MAX}) ]}

RawSendTakes ==
    {Flatten(<< r.side, r.limit_price, r.max_coin_qty,
                r.max_native_pc_qty_including_fees, r.min_coin_qty,
                r.min_native_pc_qty, r.limit >>) : r \in
        [ side : RawSides, limit_price : Bytes64({U64_ZERO, U64_A}),
          max_coin_qty : Bytes64({U64_ZERO, U64_TOP}),
          max_native_pc_qty_including_fees : Bytes64({U64_ZERO, U64_B}),
          min_coin_qty : Bytes64({U64_ZERO, U64_A}),
          min_native_pc_qty : Bytes64({U64_ZERO, U64_MAX}),
          limit : {u16_to_le_bytes(l) : l \in {0, 65535}} ]}

RawV1Records ==
    {Flatten(<<r.side, r.limit_price, r.max_qty, r.order_type, r.client_id>>) : r \in
        [ side : RawSides, limit_price : Bytes64({U64_ZERO, U64_A}),
          max_qty : Bytes64({U64_ZERO, U64_TOP}), order_type : RawOrderTypes,
          client_id : Bytes64({U64_ZERO, U64_MAX}) ]}

RawV2Records == {p[1] \o p[2] : p \in RawV1Records \X RawSelfTradeBehaviors}

RawCancelOrders ==
    {Flatten(<<r.side, r.order_id, r.owner, r.owner_slot>>) : r \in
        [ side : RawSides, order_id : {to_le_bytes(Wide(0, 8)), to_le_bytes(U128_A)},
          owner : {to_le_bytes(Wide(0, 16)), to_le_bytes(U128_A \o U128_TOP)},
          owner_slot : {<<0>>, <<255>>} ]}

RawCancelOrdersV2 ==
    {p[1] \o p[2] : p \in RawSides
        \X {to_le_bytes(Wide(0, 8)), to_le_bytes(U128_A), to_le_bytes(U128_TOP)}}

RawInitializeMarkets ==
    {Flatten(<<r.a, r.b, r.c, r.d, r.e>>) : r \in
        [ a : Bytes64({U64_ZERO, U64_A}), b : Bytes64({U64_ZERO, U64_B}),
          c : {u16_to_le_bytes(l) : l \in {0, 513}},
          d : Bytes64({U64_ZERO, U64_TOP}), e : Bytes64({U64_ZERO, U64_C}) ]}

RawLimits == {u16_to_le_bytes(l) : l \in {0, 513, 65535}}

RawClientIds == Bytes64({U64_ZERO, U64_A, U64_TOP})

\* 0..MaxOrders client ids in a row
RawClientIdLists ==
    {Flatten(l) : l \in UNION {ListsOf(p[1][1], p[1][2], p[2]) :
        p \in {<<to_le_bytes(U64_A), to_le_bytes(U64_ZERO)>>,
               <<to_le_bytes(U64_ZERO), to_le_bytes(U64_B)>>} \X (0..MaxOrders)}}

\* the bytes of OrderA
RawOrderA ==
    RawV3([ side |-> Code(0), limit_price |-> to_le_bytes(U64_A),
            max_coin_qty |-> to_le_bytes(U64_B),
            max_native_pc_qty_including_fees |-> to_le_bytes(U64_TOP),
            self_trade_behavior |-> Code(1), order_type |-> Code(2),
            client_order_id |-> to_le_bytes(U64_C), limit |-> u16_to_le_bytes(513),
            max_ts |-> to_le_bytes(U64_TOP) ])

\* the bytes of OrderB
RawOrderB ==
    RawV3([ side |-> Code(1), limit_price |-> to_le_bytes(U64_TOP),
            max_coin_qty |-> to_le_bytes(U64_A),
            max_native_pc_qty_including_fees |-> to_le_bytes(U64_B),
            self_trade_behavior |-> Code(2), order_type |-> Code(1),
            client_order_id |-> to_le_bytes(U64_ZERO), limit |-> u16_to_le_bytes(65535),
            max_ts |-> to_le_bytes(I64_MAX) ])

\* OrderA with limit_price 0
RawOrderZeroPrice == Slice(RawOrderA, 0, 4) \o to_le_bytes(U64_ZERO) \o Slice(RawOrderA, 12, 42)

\* OrderB with order_type 3
RawOrderBadType == Slice(RawOrderB, 0, 32) \o Code(3) \o Slice(RawOrderB, 36, 18)

\* a count field and 0..MaxOrders records; the count is right, off by one
\* either way, or right in its low 16 bits only
RawOrderBatches ==
    {to_le_bytes(c) \o Flatten(l) :
        <<c, l>> \in UNION {
            {Wide(p[2], 4), Wide(p[2] + 1, 4), Wide(IF p[2] = 0 THEN 2 ELSE p[2] - 1, 4),
             <<p[2], 1, 0, 0>>, <<p[2], 0, 0, 256>>}
            \X ListsOf(p[1][1], p[1][2], p[2]) :
                p \in {<<RawOrderA, RawOrderB>>, <<RawOrderB, RawOrderA>>,
                       <<RawOrderZeroPrice, RawOrderA>>, <<RawOrderBadType, RawOrderA>>,
                       <<RawOrderZeroPrice, RawOrderBadType>>} \X (0..MaxOrders)}}

\* payloads of their discriminant's own length (or lengths), fields varying
FieldPayloads(d) ==
    CASE d = 0 -> RawInitializeMarkets
      [] d = 1 -> RawV1Records
      [] d \in {2, 3, 16, 17} -> RawLimits
      [] d = 4 -> RawCancelOrders
      [] d \in {6, 12} -> RawClientIds
      [] d = 9 -> RawV2Records
      [] d = 10 -> RawV3Records \cup {Slice(r, 0, 46) : r \in RawV3Records}
      [] d = 11 -> RawCancelOrdersV2
      [] d = 13 -> RawSendTakes
      [] d = 18 -> RawClientIdLists
      [] d = 19 -> RawV3Records \cup {Slice(r, 0, 46) : r \in RawV3Records}
      [] d = 20 -> RawOrderBatches
      [] OTHER -> {<<>>}

\* the first n bytes of the endless repetition of a pattern
Cycle(pattern, n) == [i \in 1..n |-> pattern[((i - 1) % Len(pattern)) + 1]]

\* a payload that is accepted under discriminant d (none for d > 20)
Canonical(d) ==
    CASE d = 0 -> Flatten(<< to_le_bytes(U64_A), to_le_bytes(U64_B), u16_to_le_bytes(513),
                             to_le_bytes(U64_TOP), to_le_bytes(U64_C) >>)
      [] d = 1 -> Flatten(<< Code(1), to_le_bytes(U64_A), to_le_bytes(U64_B), Code(2),
                             to_le_bytes(U64_C) >>)
      [] d \in {2, 3, 16, 17} -> u16_to_le_bytes(513)
      [] d = 4 -> Flatten(<< Code(1), to_le_bytes(U128_A), to_le_bytes(U128_A \o U128_TOP),
                             <<255>> >>)
      [] d \in {6, 12} -> to_le_bytes(U64_A)
      [] d = 9 -> Flatten(<< Code(1), to_le_bytes(U64_A), to_le_bytes(U64_B), Code(2),
                             to_le_bytes(U64_C), Code(1) >>)
      [] d \in {10, 19} -> RawOrderA
      [] d = 11 -> Code(1) \o to_le_bytes(U128_A)
      [] d = 13 -> Slice(RawOrderA, 0, 28) \o to_le_bytes(U64_A) \o to_le_bytes(U64_C)
                      \o u16_to_le_bytes(513)
      [] d = 18 -> Cycle(to_le_bytes(U64_A), 64)
      [] d = 20 -> Flatten(<<to_le_bytes(Wide(2, 4)), RawOrderA, RawOrderB>>)
      [] OTHER -> <<>>

\* what a swept payload repeats
SweepPattern == [d \in Byte |-> IF Canonical(d) = <<>> THEN <<7>> ELSE Canonical(d)]

\* a payload of n bytes for discriminant d, as well formed as n allows: the
\* canonical payload cut or continued to n bytes; under 20, a count that
\* fits n followed by whole records and what remains of one
SweepPayload(d, n) ==
    IF d = 20
    THEN Slice(to_le_bytes(Wide(IF n >= 8 THEN (n - 8) \div 54 ELSE 0, 4)), 0, Min(n, 8))
            \o Cycle(RawOrderA, IF n >= 8 THEN n - 8 ELSE 0)
    ELSE Cycle(SweepPattern[d], n)

Envelope(version, discrim, payload) == <<version>> \o to_le_bytes(discrim) \o payload

SmallBytes == {0, 5, 255}

RECURSIVE SeqsUpTo(_, _)
\* the sequences over S of length at most n
SeqsUpTo(S, n) ==
    IF n = 0 THEN {<<>>}
    ELSE LET shorter == SeqsUpTo(S, n - 1)
         IN  shorter \cup {Append(s, x) : <<s, x>> \in {t \in shorter : Len(t) = n - 1} \X S}

\* the discriminants whose every payload length is fed: the known ones, the
\* first unknown ones, and two that agree with a known one in the low byte
SweptDiscrims ==
    {Wide(d, 2) : d \in 0..MaxDiscrim} \cup {Wide(20 + 256, 2), <<5, 1>>}

RawInputs ==
    SeqsUpTo(SmallBytes, MaxShortLen)
    \cup {Envelope(0, dn[1], SweepPayload(dn[1][1] % 256, dn[2])) :
             dn \in SweptDiscrims \X (0..MaxPayloadLen)}
    \cup UNION {{Envelope(0, Wide(d, 2), p) : p \in FieldPayloads(d)} : d \in 0..MaxDiscrim}
    \cup {Envelope(vd[1], vd[2], Canonical(vd[2][1] % 256)) :
             vd \in {0, 1, 255} \X ({Wide(d, 2) : d \in 0..MaxDiscrim}
                                    \cup {<<d, 1>> : d \in 0..MaxDiscrim}
                                    \cup {Wide(d + 256, 2) : d \in 0..MaxDiscrim})}

----------------------------------------------------------------------------
(* The state machine: a command is packed and the bytes unpacked, or raw   *)
(* bytes are unpacked; what unpack accepted is packed and unpacked again.  *)

\* Checklist { .. Default::default() }: the flags false and sol_pooled 0.0.
\* sol_pooled is written as whole SOL and billionths of a SOL; slot,
\* accounts and mint are set once from the transaction and not read again
Checklist_default ==
    [ is_pump_fun |-> FALSE, lp_burnt |-> FALSE,
      mint_authority_renounced |-> FALSE, freeze_authority_renounced |-> FALSE,
      sol_pooled |-> [whole |-> 0, nanos |-> 0], timeout |-> FALSE ]

\* a notification with nothing in it
NoLog ==
    [ data |-> "none", amount |-> 0, mint_authority |-> "None",
      freeze_authority |-> "None", lamports |-> [billions |-> 0, rest |-> 0] ]

\* no branch of tokio::select! has completed
NoBranch == [arm |-> "none", log |-> NoLog]

\* run_checks and process_diffs have not been called
NotCalled ==
    /\ pc = "idle"
    /\ checklist = Checklist_default
    /\ ok = FALSE
    /\ subscriptions = <<>>
    /\ unsubscribed = <<>>
    /\ elapsed = 0
    /\ branch = NoBranch
    /\ diffs = <<>>
    /\ sol_price = 0
    /\ diffs_result = [kind |-> "Pending", val |-> NoValue]

Pending == [kind |-> "Pending", val |-> NoValue]

Init ==
    /\ step = "input"
    /\ result = Pending
    /\ repacked = <<>>
    /\ redecoded = Pending
    \* no builder has been called
    /\ call = [fn |-> "none", args |-> NoValue]
    /\ instruction = [program_id |-> "", data |-> <<>>, accounts |-> <<>>]
    /\ NotCalled
    /\ \/ /\ origin = "command"
          /\ \E i \in 1..Len(Variants) :
                \E v \in CommandsOf(Variants[i]) : command = Instr(Variants[i], v)
          /\ versioned_bytes = <<>>
       \/ /\ origin = "wire"
          /\ command = Unit("none")
          /\ versioned_bytes \in RawInputs
       \/ /\ origin = "builder"
          /\ command = Unit("none")
          /\ versioned_bytes = <<>>

(* The instruction builders: each packs one command and lists the accounts *)
(* of the instruction.  A Pubkey is a name; a caller may pass the same key *)
(* for several parameters.                                                 *)

\* pub const RENT_PROGRAM, which is also rent::ID
RENT_PROGRAM == "SysvarRent111111111111111111111111111111111"

\* AccountMeta::new(pubkey, is_signer): a writable account
AccountMeta_new(pubkey, is_signer) ==
    [pubkey |-> pubkey, is_signer |-> is_signer, is_writable |-> TRUE]

\* AccountMeta::new_readonly(pubkey, is_signer)
AccountMeta_new_readonly(pubkey, is_signer) ==
    [pubkey |-> pubkey, is_signer |-> is_signer, is_writable |-> FALSE]

\* the keys a caller passes for the parameter `name`
Keys(name) == {name, "shared"}

\* an Option<&Pubkey> argument
Opt(given, key) == IF given THEN Some(key) ELSE None

\* `accounts.push(..)` under `if let Some(key) = ..`
push_if_some(accounts, option, is_writable, is_signer) ==
    IF ~IsSome(option) THEN accounts
    ELSE Append(accounts,
                IF is_writable THEN AccountMeta_new(option.val, is_signer)
                ELSE AccountMeta_new_readonly(option.val, is_signer))

\* `Instruction { program_id, data, accounts }`
Instruction(program_id, data, accounts) ==
    [program_id |-> program_id, data |-> data, accounts |-> accounts]

\* the three authorities pushed independently of each other
push_authorities_Flat(accounts, authority_pk, prune_authority_pk, consume_events_authority_pk) ==
    push_if_some(push_if_some(push_if_some(accounts, authority_pk, FALSE, FALSE),
                              prune_authority_pk, FALSE, FALSE),
                 consume_events_authority_pk, FALSE, FALSE)

\* the nested `if let Some(..)` pushes of initialize_market
push_authorities(accounts, authority_pk, prune_authority_pk, consume_events_authority_pk) ==
    IF ~IsSome(authority_pk) THEN accounts
    ELSE LET with_authority ==
                 Append(accounts, AccountMeta_new_readonly(authority_pk.val, FALSE))
         IN  IF ~IsSome(prune_authority_pk) THEN with_authority
             ELSE push_if_some(
                      Append(with_authority,
                             AccountMeta_new_readonly(prune_authority_pk.val, FALSE)),
                      consume_events_authority_pk, FALSE, FALSE)

initialize_market ==
    \E market \in Keys("market"), coin_mint_pk \in Keys("coin_mint_pk"),
       has_authority \in BOOLEAN, has_prune_authority \in BOOLEAN,
       has_consume_events_authority \in BOOLEAN,
       authority_key \in Keys("authority_pk"),
       coin_lot_size \in {U64_ZERO, U64_A}, pc_dust_threshold \in {U64_ZERO, U64_C} :
        LET a == [ market |-> market, program_id |-> "program_id",
                   coin_mint_pk |-> coin_mint_pk, pc_mint_pk |-> "pc_mint_pk",
                   coin_vault_pk |-> "coin_vault_pk", pc_vault_pk |-> "pc_vault_pk",
                   authority_pk |-> Opt(has_authority, authority_key),
                   prune_authority_pk |-> Opt(has_prune_authority, "prune_authority_pk"),
                   consume_events_authority_pk |->
                       Opt(has_consume_events_authority, "consume_events_authority_pk"),
                   bids_pk |-> "bids_pk", asks_pk |-> "asks_pk",
                   req_q_pk |-> "req_q_pk", event_q_pk |-> "event_q_pk",
                   coin_lot_size |-> coin_lot_size, pc_lot_size |-> U64_B,
                   vault_signer_nonce |-> U64_TOP,
                   pc_dust_threshold |-> pc_dust_threshold ]
            data == Instr("InitializeMarket",
                        [ coin_lot_size |-> a.coin_lot_size,
                          pc_lot_size |-> a.pc_lot_size,
                          fee_rate_bps |-> 0,
                          vault_signer_nonce |-> a.vault_signer_nonce,
                          pc_dust_threshold |-> a.pc_dust_threshold ])
            accounts ==
                << AccountMeta_new(a.market, FALSE),
                   AccountMeta_new(a.req_q_pk, FALSE),
                   AccountMeta_new(a.event_q_pk, FALSE),
                   AccountMeta_new(a.bids_pk, FALSE),
                   AccountMeta_new(a.asks_pk, FALSE),
                   AccountMeta_new(a.coin_vault_pk, FALSE),
                   AccountMeta_new(a.pc_vault_pk, FALSE),
                   AccountMeta_new_readonly(a.coin_mint_pk, FALSE),
                   AccountMeta_new_readonly(a.pc_mint_pk, FALSE),
                   AccountMeta_new_readonly(RENT_PROGRAM, FALSE) >>
        IN  /\ origin = "builder"
            /\ step = "input"
            /\ call' = [fn |-> "initialize_market", args |-> a]
            /\ command' = data
            /\ instruction' =
                  Instruction(a.program_id, pack(command'),
                      push_authorities(accounts, a.authority_pk, a.prune_authority_pk,
                          a.consume_events_authority_pk))
            /\ versioned_bytes' = instruction'.data
            /\ step' = "packed"
            /\ UNCHANGED <<origin, result, repacked, redecoded,
                   checker_vars, diffs_vars>>

new_order ==
    \E market \in Keys("market"), open_orders_account \in Keys("open_orders_account"),
       open_orders_account_owner \in Keys("open_orders_account_owner"),
       has_referral \in BOOLEAN, order \in {OrderA, OrderB} :
        LET a == [ market |-> market, open_orders_account |-> open_orders_account,
                   request_queue |-> "request_queue", event_queue |-> "event_queue",
                   market_bids |-> "market_bids", market_asks |-> "market_asks",
                   order_payer |-> "order_payer",
                   open_orders_account_owner |-> open_orders_account_owner,
                   coin_vault |-> "coin_vault", pc_vault |-> "pc_vault",
                   spl_token_program_id |-> "spl_token_program_id",
                   rent_sysvar_id |-> "rent_sysvar_id",
                   srm_account_referral |-> Opt(has_referral, "srm_account_referral"),
                   program_id |-> "program_id", order |-> order ]
            data == Instr("NewOrderV3",
                        [ side |-> a.order.side,
                          limit_price |-> a.order.limit_price,
                          max_coin_qty |-> a.order.max_coin_qty,
                          order_type |-> a.order.order_type,
                          client_order_id |-> a.order.client_order_id,
                          self_trade_behavior |-> a.order.self_trade_behavior,
                          limit |-> a.order.limit,
                          max_native_pc_qty_including_fees |->
                              a.order.max_native_pc_qty_including_fees,
                          max_ts |-> a.order.max_ts ])
            accounts ==
                << AccountMeta_new(a.market, FALSE),
                   AccountMeta_new(a.open_orders_account, FALSE),
                   AccountMeta_new(a.request_queue, FALSE),
                   AccountMeta_new(a.event_queue, FALSE),
                   AccountMeta_new(a.market_bids, FALSE),
                   AccountMeta_new(a.market_asks, FALSE),
                   AccountMeta_new(a.order_payer, FALSE),
                   AccountMeta_new_readonly(a.open_orders_account_owner, TRUE),
                   AccountMeta_new(a.coin_vault, FALSE),
                   AccountMeta_new(a.pc_vault, FALSE),
                   AccountMeta_new_readonly(a.spl_token_program_id, FALSE),
                   AccountMeta_new_readonly(a.rent_sysvar_id, FALSE) >>
        IN  /\ origin = "builder"
            /\ step = "input"
            /\ call' = [fn |-> "new_order", args |-> a]
            /\ command' = data
            /\ instruction' =
                  Instruction(a.program_id, pack(command'),
                      push_if_some(accounts, a.srm_account_referral, FALSE, FALSE))
            /\ versioned_bytes' = instruction'.data
            /\ step' = "packed"
            /\ UNCHANGED <<origin, result, repacked, redecoded,
                   checker_vars, diffs_vars>>

match_orders ==
    \E market \in Keys("market"), event_queue \in Keys("event_queue"),
       limit \in {0, 513, 65535} :
        LET a == [ program_id |-> "program_id", market |-> market,
                   request_queue |-> "request_queue", bids |-> "bids",
                   asks |-> "asks", event_queue |-> event_queue,
                   coin_fee_receivable_account |-> "coin_fee_receivable_account",
                   pc_fee_receivable_account |-> "pc_fee_receivable_account",
                   limit |-> limit ]
        IN  /\ origin = "builder"
            /\ step = "input"
            /\ call' = [fn |-> "match_orders", args |-> a]
            /\ command' = Instr("MatchOrders", a.limit)
            /\ instruction' =
                  Instruction(a.program_id, pack(command'),
                      << AccountMeta_new(a.market, FALSE),
                         AccountMeta_new(a.request_queue, FALSE),
                         AccountMeta_new(a.event_queue, FALSE),
                         AccountMeta_new(a.bids, FALSE),
                         AccountMeta_new(a.asks, FALSE),
                         AccountMeta_new(a.coin_fee_receivable_account, FALSE),
                         AccountMeta_new(a.pc_fee_receivable_account, FALSE) >>)
            /\ versioned_bytes' = instruction'.data
            /\ step' = "packed"
            /\ UNCHANGED <<origin, result, repacked, redecoded,
                   checker_vars, diffs_vars>>

\* the lists of open-orders accounts a caller passes, in the caller's order
OpenOrdersLists == SeqsUpTo({"open_orders_1", "open_orders_2"}, MaxOpenOrders)

\* `open_orders_accounts.iter().map(|key| AccountMeta::new(**key, false))`
open_orders_metas(open_orders_accounts) ==
    [i \in 1..Len(open_orders_accounts) |->
        AccountMeta_new(open_orders_accounts[i], FALSE)]

consume_events ==
    \E open_orders_accounts \in OpenOrdersLists, market \in Keys("market"),
       coin_fee_receivable_account \in Keys("coin_fee_receivable_account"),
       limit \in {0, 65535} :
        LET a == [ program_id |-> "program_id",
                   open_orders_accounts |-> open_orders_accounts,
                   market |-> market, event_queue |-> "event_queue",
                   coin_fee_receivable_account |-> coin_fee_receivable_account,
                   pc_fee_receivable_account |-> "pc_fee_receivable_account",
                   limit |-> limit ]
        IN  /\ origin = "builder"
            /\ step = "input"
            /\ call' = [fn |-> "consume_events", args |-> a]
            /\ command' = Instr("ConsumeEvents", a.limit)
            /\ instruction' =
                  Instruction(a.program_id, pack(command'),
                      open_orders_metas(a.open_orders_accounts) \o
                          << AccountMeta_new(a.market, FALSE),
                             AccountMeta_new(a.event_queue, FALSE),
                             AccountMeta_new(a.coin_fee_receivable_account, FALSE),
                             AccountMeta_new(a.pc_fee_receivable_account, FALSE) >>)
            /\ versioned_bytes' = instruction'.data
            /\ step' = "packed"
            /\ UNCHANGED <<origin, result, repacked, redecoded,
                   checker_vars, diffs_vars>>

consume_events_permissioned ==
    \E open_orders_accounts \in OpenOrdersLists, market \in Keys("market"),
       limit \in {0, 65535} :
        LET a == [ program_id |-> "program_id",
                   open_orders_accounts |-> open_orders_accounts,
                   market |-> market, event_queue |-> "event_queue",
                   consume_events_authority |-> "consume_events_authority",
                   limit |-> limit ]
        IN  /\ origin = "builder"
            /\ step = "input"
            /\ call' = [fn |-> "consume_events_permissioned", args |-> a]
            /\ command' = Instr("ConsumeEventsPermissioned", a.limit)
            /\ instruction' =
                  Instruction(a.program_id, pack(command'),
                      open_orders_metas(a.open_orders_accounts) \o
                          << AccountMeta_new(a.market, FALSE),
                             AccountMeta_new(a.event_queue, FALSE),
                             AccountMeta_new_readonly(a.consume_events_authority, TRUE) >>)
            /\ versioned_bytes' = instruction'.data
            /\ step' = "packed"
            /\ UNCHANGED <<origin, result, repacked, redecoded,
                   checker_vars, diffs_vars>>

\* the account list shared by the three cancel builders
cancel_accounts(a) ==
    << AccountMeta_new(a.market, FALSE),
       AccountMeta_new(a.market_bids, FALSE),
       AccountMeta_new(a.market_asks, FALSE),
       AccountMeta_new(a.open_orders_account, FALSE),
       AccountMeta_new_readonly(a.open_orders_account_owner, TRUE),
       AccountMeta_new(a.event_queue, FALSE) >>

\* the Pubkey parameters shared by the three cancel builders
CancelKeys ==
    [ program_id : {"program_id"}, market : Keys("market"),
      market_bids : {"market_bids"}, market_asks : {"market_asks"},
      open_orders_account : Keys("open_orders_account"),
      open_orders_account_owner : Keys("open_orders_account_owner"),
      event_queue : {"event_queue"} ]

cancel_order ==
    \E k \in CancelKeys, side \in Sides, order_id \in {Wide(0, 8), U128_A} :
        LET a == [ program_id |-> k.program_id, market |-> k.market,
                   market_bids |-> k.market_bids, market_asks |-> k.market_asks,
                   open_orders_account |-> k.open_orders_account,
                   open_orders_account_owner |-> k.open_orders_account_owner,
                   event_queue |-> k.event_queue,
                   side |-> side, order_id |-> order_id ]
        IN  /\ origin = "builder"
            /\ step = "input"
            /\ call' = [fn |-> "cancel_order", args |-> a]
            /\ command' = Instr("CancelOrderV2", [side |-> a.side, order_id |-> a.order_id])
            /\ instruction' =
                  Instruction(a.program_id, pack(command'),
                      cancel_accounts(a))
            /\ versioned_bytes' = instruction'.data
            /\ step' = "packed"
            /\ UNCHANGED <<origin, result, repacked, redecoded,
                   checker_vars, diffs_vars>>

settle_funds ==
    \E market \in Keys("market"), coin_wallet \in Keys("coin_wallet"),
       has_referrer \in BOOLEAN :
        LET a == [ program_id |-> "program_id", market |-> market,
                   spl_token_program_id |-> "spl_token_program_id",
                   open_orders_account |-> "open_orders_account",
                   open_orders_account_owner |-> "open_orders_account_owner",
                   coin_vault |-> "coin_vault", coin_wallet |-> coin_wallet,
                   pc_vault |-> "pc_vault", pc_wallet |-> "pc_wallet",
                   referrer_pc_wallet |-> Opt(has_referrer, "referrer_pc_wallet"),
                   vault_signer |-> "vault_signer" ]
        IN  /\ origin = "builder"
            /\ step = "input"
            /\ call' = [fn |-> "settle_funds", args |-> a]
            /\ command' = Unit("SettleFunds")
            /\ instruction' =
                  Instruction(a.program_id, pack(command'),
                      push_if_some(
                          << AccountMeta_new(a.market, FALSE),
                             AccountMeta_new(a.open_orders_account, FALSE),
                             AccountMeta_new_readonly(a.open_orders_account_owner, TRUE),
                             AccountMeta_new(a.coin_vault, FALSE),
                             AccountMeta_new(a.pc_vault, FALSE),
                             AccountMeta_new(a.coin_wallet, FALSE),
                             AccountMeta_new(a.pc_wallet, FALSE),
                             AccountMeta_new_readonly(a.vault_signer, FALSE),
                             AccountMeta_new_readonly(a.spl_token_program_id, FALSE) >>,
                          a.referrer_pc_wallet, TRUE, FALSE))
            /\ versioned_bytes' = instruction'.data
            /\ step' = "packed"
            /\ UNCHANGED <<origin, result, repacked, redecoded,
                   checker_vars, diffs_vars>>

cancel_order_by_client_order_id ==
    \E k \in CancelKeys, client_order_id \in {U64_ZERO, U64_A, U64_TOP} :
        LET a == [ program_id |-> k.program_id, market |-> k.market,
                   market_bids |-> k.market_bids, market_asks |-> k.market_asks,
                   open_orders_account |-> k.open_orders_account,
                   open_orders_account_owner |-> k.open_orders_account_owner,
                   event_queue |-> k.event_queue,
                   client_order_id |-> client_order_id ]
        IN  /\ origin = "builder"
            /\ step = "input"
            /\ call' = [fn |-> "cancel_order_by_client_order_id", args |-> a]
            /\ command' = Instr("CancelOrderByClientIdV2", a.client_order_id)
            /\ instruction' =
                  Instruction(a.program_id, pack(command'),
                      cancel_accounts(a))
            /\ versioned_bytes' = instruction'.data
            /\ step' = "packed"
            /\ UNCHANGED <<origin, result, repacked, redecoded,
                   checker_vars, diffs_vars>>

cancel_orders_by_client_order_ids ==
    \E k \in CancelKeys, client_order_ids \in ClientIdArrays :
        LET a == [ program_id |-> k.program_id, market |-> k.market,
                   market_bids |-> k.market_bids, market_asks |-> k.market_asks,
                   open_orders_account |-> k.open_orders_account,
                   open_orders_account_owner |-> k.open_orders_account_owner,
                   event_queue |-> k.event_queue,
                   client_order_ids |-> client_order_ids ]
        IN  /\ origin = "builder"
            /\ step = "input"
            /\ call' = [fn |-> "cancel_orders_by_client_order_ids", args |-> a]
            /\ command' = Instr("CancelOrdersByClientIds", a.client_order_ids)
            /\ instruction' =
                  Instruction(a.program_id, pack(command'),
                      cancel_accounts(a))
            /\ versioned_bytes' = instruction'.data
            /\ step' = "packed"
            /\ UNCHANGED <<origin, result, repacked, redecoded,
                   checker_vars, diffs_vars>>

disable_market ==
    \E market \in Keys("market"), disable_authority_key \in Keys("disable_authority_key") :
        LET a == [ program_id |-> "program_id", market |-> market,
                   disable_authority_key |-> disable_authority_key ]
        IN  /\ origin = "builder"
            /\ step = "input"
            /\ call' = [fn |-> "disable_market", args |-> a]
            /\ command' = Unit("DisableMarket")
            /\ instruction' =
                  Instruction(a.program_id, pack(command'),
                      << AccountMeta_new(a.market, FALSE),
                         AccountMeta_new_readonly(a.disable_authority_key, TRUE) >>)
            /\ versioned_bytes' = instruction'.data
            /\ step' = "packed"
            /\ UNCHANGED <<origin, result, repacked, redecoded,
                   checker_vars, diffs_vars>>

sweep_fees ==
    \E market \in Keys("market"), pc_vault \in Keys("pc_vault"),
       fee_sweeping_authority \in Keys("fee_sweeping_authority") :
        LET a == [ program_id |-> "program_id", market |-> market,
                   pc_vault |-> pc_vault,
                   fee_sweeping_authority |-> fee_sweeping_authority,
                   fee_receivable_account |-> "fee_receivable_account",
                   vault_signer |-> "vault_signer",
                   spl_token_program_id |-> "spl_token_program_id" ]
        IN  /\ origin = "builder"
            /\ step = "input"
            /\ call' = [fn |-> "sweep_fees", args |-> a]
            /\ command' = Unit("SweepFees")
            /\ instruction' =
                  Instruction(a.program_id, pack(command'),
                      << AccountMeta_new(a.market, FALSE),
                         AccountMeta_new(a.pc_vault, FALSE),
                         AccountMeta_new_readonly(a.fee_sweeping_authority, TRUE),
                         AccountMeta_new(a.fee_receivable_account, FALSE),
                         AccountMeta_new_readonly(a.vault_signer, FALSE),
                         AccountMeta_new_readonly(a.spl_token_program_id, FALSE) >>)
            /\ versioned_bytes' = instruction'.data
            /\ step' = "packed"
            /\ UNCHANGED <<origin, result, repacked, redecoded,
                   checker_vars, diffs_vars>>

close_open_orders ==
    \E open_orders \in Keys("open_orders"), owner \in Keys("owner"),
       destination \in Keys("destination"), market \in Keys("market") :
        LET a == [ program_id |-> "program_id", open_orders |-> open_orders,
                   owner |-> owner, destination |-> destination, market |-> market ]
        IN  /\ origin = "builder"
            /\ step = "input"
            /\ call' = [fn |-> "close_open_orders", args |-> a]
            /\ command' = Unit("CloseOpenOrders")
            /\ instruction' =
                  Instruction(a.program_id, pack(command'),
                      << AccountMeta_new(a.open_orders, FALSE),
                         AccountMeta_new_readonly(a.owner, TRUE),
                         AccountMeta_new(a.destination, FALSE),
                         AccountMeta_new_readonly(a.market, FALSE) >>)
            /\ versioned_bytes' = instruction'.data
            /\ step' = "packed"
            /\ UNCHANGED <<origin, result, repacked, redecoded,
                   checker_vars, diffs_vars>>

init_open_orders ==
    \E open_orders \in Keys("open_orders"), owner \in Keys("owner"),
       market \in Keys("market"), has_market_authority \in BOOLEAN :
        LET a == [ program_id |-> "program_id", open_orders |-> open_orders,
                   owner |-> owner, market |-> market,
                   market_authority |-> Opt(has_market_authority, "market_authority") ]
        IN  /\ origin = "builder"
            /\ step = "input"
            /\ call' = [fn |-> "init_open_orders", args |-> a]
            /\ command' = Unit("InitOpenOrders")
            /\ instruction' =
                  Instruction(a.program_id, pack(command'),
                      push_if_some(
                          << AccountMeta_new(a.open_orders, FALSE),
                             AccountMeta_new_readonly(a.owner, TRUE),
                             AccountMeta_new_readonly(a.market, FALSE),
                             AccountMeta_new_readonly(RENT_PROGRAM, FALSE) >>,
                          a.market_authority, FALSE, TRUE))
            /\ versioned_bytes' = instruction'.data
            /\ step' = "packed"
            /\ UNCHANGED <<origin, result, repacked, redecoded,
                   checker_vars, diffs_vars>>

prune ==
    \E market \in Keys("market"), prune_authority \in Keys("prune_authority"),
       open_orders \in Keys("open_orders"),
       open_orders_owner \in Keys("open_orders_owner"), limit \in {0, 513, 65535} :
        LET a == [ program_id |-> "program_id", market |-> market,
                   bids |-> "bids", asks |-> "asks",
                   prune_authority |-> prune_authority,
                   open_orders |-> open_orders,
                   open_orders_owner |-> open_orders_owner,
                   event_q |-> "event_q", limit |-> limit ]
        IN  /\ origin = "builder"
            /\ step = "input"
            /\ call' = [fn |-> "prune", args |-> a]
            /\ command' = Instr("Prune", a.limit)
            /\ instruction' =
                  Instruction(a.program_id, pack(command'),
                      << AccountMeta_new(a.market, FALSE),
                         AccountMeta_new(a.bids, FALSE),
                         AccountMeta_new(a.asks, FALSE),
                         AccountMeta_new_readonly(a.prune_authority, TRUE),
                         AccountMeta_new(a.open_orders, FALSE),
                         AccountMeta_new_readonly(a.open_orders_owner, FALSE),
                         AccountMeta_new(a.event_q, FALSE) >>)
            /\ versioned_bytes' = instruction'.data
            /\ step' = "packed"
            /\ UNCHANGED <<origin, result, repacked, redecoded,
                   checker_vars, diffs_vars>>

\* command.pack()
Pack ==
    /\ origin = "command"
    /\ step = "input"
    /\ versioned_bytes' = pack(command)
    /\ step' = "packed"
    /\ UNCHANGED <<origin, command, result, repacked, redecoded, call, instruction,
                   checker_vars, diffs_vars>>

\* MarketInstruction::unpack(&versioned_bytes)
Unpack ==
    /\ \/ origin = "wire" /\ step = "input"
       \/ step = "packed"
    /\ result' = unpack(versioned_bytes)
    /\ step' = "unpacked"
    /\ UNCHANGED <<origin, command, versioned_bytes, repacked, redecoded, call, instruction,
                   checker_vars, diffs_vars>>

\* the decoded command packed again
Repack ==
    /\ step = "unpacked"
    /\ IsSome(result)
    /\ repacked' = pack(result.val)
    /\ step' = "repacked"
    /\ UNCHANGED <<origin, command, versioned_bytes, result, redecoded, call, instruction,
                   checker_vars, diffs_vars>>

\* and unpacked again
Redecode ==
    /\ step = "repacked"
    /\ redecoded' = unpack(repacked)
    /\ step' = "redecoded"
    /\ UNCHANGED <<origin, command, versioned_bytes, result, repacked, call, instruction,
                   checker_vars, diffs_vars>>

Next ==
    \/ Pack \/ Unpack \/ Repack \/ Redecode
    \/ initialize_market \/ new_order \/ match_orders
    \/ consume_events \/ consume_events_permissioned
    \/ cancel_order \/ settle_funds
    \/ cancel_order_by_client_order_id \/ cancel_orders_by_client_order_ids
    \/ disable_market \/ sweep_fees \/ close_open_orders \/ init_open_orders
    \/ prune

Spec == Init /\ [][Next]_vars

----------------------------------------------------------------------------
(* run_checks: the checks of a new pool.  One action for each await of the  *)
(* function; pc is the await the task is at, and "Ok", "Err" and "Panic"   *)
(* are its three ways of ending.                                           *)

\* Duration::from_secs(900)
TIMEOUT_SECS == 900

\* 10u64.pow(9)
LAMPORTS_PER_SOL == 1000000000

\* the seconds that pass in one step of the clock
TickSecs == 150

\* the lamports tried, as billions of lamports and the rest: 0, one lamport
\* below 6.9 SOL, 6.9 SOL, 7 SOL
Lamports ==
    { [billions |-> 0, rest |-> 0], [billions |-> 6, rest |-> 899999999],
      [billions |-> 6, rest |-> 900000000], [billions |-> 7, rest |-> 0] }

\* lamports as f64 / 10u64.pow(9) as f64: the quotient is the whole SOL and
\* the remainder the billionths (the f64 quotient of 6_900_000_000 is the
\* literal 6.9, and division is monotone)
sol_of(lamports) ==
    [ whole |-> lamports.billions + lamports.rest \div LAMPORTS_PER_SOL,
      nanos |-> lamports.rest % LAMPORTS_PER_SOL ]

\* sol_pooled < 6.9
below_6_9(sol_pooled) ==
    \/ sol_pooled.whole < 6
    \/ sol_pooled.whole = 6 /\ sol_pooled.nanos < 900000000

\* the flag assigned rather than only ever set
set_if_Assigning(flag, cond) == cond

\* if cond { flag = true }
set_if(flag, cond) == IF cond THEN TRUE ELSE flag

\* the order of the three account_subscribe calls
SubscribeOrder == <<"lp", "sol_vault", "mint">>

\* the subscriptions closed in the order they were opened
UnsubOrder_AsSubscribed == <<"lp", "sol_vault", "mint">>

\* the order of the three unsub calls
UnsubOrder == <<"mint", "lp", "sol_vault">>

\* the timer firing at the first step of the clock
timer_fired_Early(t) == t > 0

\* the sleep of the current iteration has completed
timer_fired(t) == t >= TIMEOUT_SECS

InitChecker ==
    /\ origin = "run_checks"
    /\ step = "input"
    /\ command = Unit("none")
    /\ versioned_bytes = <<>>
    /\ result = Pending
    /\ repacked = <<>>
    /\ redecoded = Pending
    /\ call = [fn |-> "none", args |-> NoValue]
    /\ instruction = [program_id |-> "", data |-> <<>>, accounts |-> <<>>]
    /\ pc = "check_if_pump_fun"
    /\ checklist = Checklist_default
    /\ ok = FALSE
    /\ subscriptions = <<>>
    /\ unsubscribed = <<>>
    /\ elapsed = 0
    /\ branch = NoBranch
    /\ diffs = <<>>
    /\ sol_price = 0
    /\ diffs_result = Pending

\* get_transaction_with_config, parse_accounts and check_if_pump_fun: any
\* of them fails, or the mint is a pump fun, or it is not
check_if_pump_fun ==
    /\ pc = "check_if_pump_fun"
    /\ \E outcome \in {"Err", "pump_fun", "other"} :
          CASE outcome = "Err" ->
                  /\ pc' = "Err"
                  /\ UNCHANGED <<checklist, ok>>
            [] outcome = "pump_fun" ->
                  /\ checklist' = [checklist EXCEPT !.is_pump_fun = TRUE]
                  /\ ok' = FALSE
                  /\ pc' = "Ok"
            [] outcome = "other" ->
                  /\ checklist' = [checklist EXCEPT !.is_pump_fun = FALSE]
                  /\ pc' = "account_subscribe"
                  /\ UNCHANGED ok
    /\ UNCHANGED <<subscriptions, unsubscribed, elapsed, branch, codec_vars, diffs_vars>>

\* PubsubClient::new, then account_subscribe for the LP token account, the
\* SOL vault and the mint: one subscription at each step, or an error
account_subscribe ==
    /\ pc = "account_subscribe"
    /\ \E subscribed \in BOOLEAN :
          IF subscribed
          THEN /\ subscriptions' =
                      Append(subscriptions, SubscribeOrder[Len(subscriptions) + 1])
               /\ pc' = IF Len(subscriptions') = Len(SubscribeOrder)
                        THEN "get_multiple_accounts" ELSE "account_subscribe"
          ELSE /\ pc' = "Err"
               /\ UNCHANGED subscriptions
    /\ UNCHANGED <<checklist, ok, unsubscribed, elapsed, branch, codec_vars, diffs_vars>>

\* get_multiple_accounts(&[user_lp_token, mint]) and the first setting of
\* the flags; the loop is entered and its first sleep created
get_multiple_accounts ==
    /\ pc = "get_multiple_accounts"
    /\ \E outcome \in {"Err", "None", "garbled", "accounts"} :
          CASE outcome \in {"Err", "None"} ->
                  /\ pc' = "Err"
                  /\ UNCHANGED <<checklist, elapsed>>
            [] outcome = "garbled" ->
                  /\ pc' = "Panic"
                  /\ UNCHANGED <<checklist, elapsed>>
            [] outcome = "accounts" ->
                  \E amount \in {0, 1}, mint_authority, freeze_authority \in {"None", "Some"} :
                      /\ checklist' =
                            [checklist EXCEPT
                                !.lp_burnt = set_if(@, amount = 0),
                                !.mint_authority_renounced =
                                    set_if(@, mint_authority = "None"),
                                !.freeze_authority_renounced =
                                    set_if(@, freeze_authority = "None")]
                      /\ pc' = "select"
                      /\ elapsed' = 0
    /\ UNCHANGED <<ok, subscriptions, unsubscribed, branch, codec_vars, diffs_vars>>

\* the notifications of the LP token account: the stream ended, data that
\* is not Binary/Base64, data that does not decode, or a token account
LpLogs ==
    {[NoLog EXCEPT !.data = d] : d \in {"closed", "json", "garbled"}}
    \cup {[NoLog EXCEPT !.data = "account", !.amount = a] : a \in {0, 1}}

\* lp_log = lp_stream.next() => { .. }
lp_stream_next ==
    /\ pc = "select"
    /\ \E log \in LpLogs :
          /\ branch' = [arm |-> "lp", log |-> log]
          /\ CASE log.data \in {"closed", "garbled"} ->
                     /\ pc' = "Panic"
                     /\ UNCHANGED <<checklist, elapsed>>
               [] log.data = "json" ->
                     /\ elapsed' = 0
                     /\ UNCHANGED <<pc, checklist>>
               [] log.data = "account" ->
                     /\ checklist' =
                           [checklist EXCEPT !.lp_burnt = set_if(@, log.amount = 0)]
                     /\ elapsed' = 0
                     /\ UNCHANGED pc
    /\ UNCHANGED <<ok, subscriptions, unsubscribed, codec_vars, diffs_vars>>

\* the notifications of the SOL vault: the stream ended, or an account
VaultLogs ==
    {[NoLog EXCEPT !.data = "closed"]}
    \cup {[NoLog EXCEPT !.data = "account", !.lamports = l] : l \in Lamports}

\* the vault branch breaking with true whatever the flags are
vault_break_Unchecked(c) ==
    IF below_6_9(c.sol_pooled) THEN Some(FALSE) ELSE Some(TRUE)

\* the two breaks of the vault branch: Some(value of the loop), or None to
\* stay in the loop
vault_break(c) ==
    IF below_6_9(c.sol_pooled) THEN Some(FALSE)
    ELSE IF c.mint_authority_renounced /\ c.freeze_authority_renounced /\ c.lp_burnt
         THEN Some(TRUE)
         ELSE None

\* vault_log = sol_vault_stream.next() => { .. }
sol_vault_stream_next ==
    /\ pc = "select"
    /\ \E log \in VaultLogs :
          /\ branch' = [arm |-> "sol_vault", log |-> log]
          /\ IF log.data = "closed"
             THEN /\ pc' = "Panic"
                  /\ UNCHANGED <<checklist, ok, elapsed>>
             ELSE /\ checklist' = [checklist EXCEPT !.sol_pooled = sol_of(log.lamports)]
                  /\ IF IsSome(vault_break(checklist'))
                     THEN /\ ok' = vault_break(checklist').val
                          /\ pc' = "unsub"
                          /\ UNCHANGED elapsed
                     ELSE /\ elapsed' = 0
                          /\ UNCHANGED <<pc, ok>>
    /\ UNCHANGED <<subscriptions, unsubscribed, codec_vars, diffs_vars>>

\* the notifications of the mint: the stream ended, data that is not
\* Binary/Base64, data that does not decode, or a Mint
MintLogs ==
    {[NoLog EXCEPT !.data = d] : d \in {"closed", "json", "garbled"}}
    \cup {[NoLog EXCEPT !.data = "account", !.mint_authority = m, !.freeze_authority = f] :
            m, f \in {"None", "Some"}}

\* mint_log = mint_stream.next() => { .. }
mint_stream_next ==
    /\ pc = "select"
    /\ \E log \in MintLogs :
          /\ branch' = [arm |-> "mint", log |-> log]
          /\ CASE log.data \in {"closed", "garbled"} ->
                     /\ pc' = "Panic"
                     /\ UNCHANGED <<checklist, elapsed>>
               [] log.data = "json" ->
                     /\ elapsed' = 0
                     /\ UNCHANGED <<pc, checklist>>
               [] log.data = "account" ->
                     /\ checklist' =
                           [checklist EXCEPT
                               !.mint_authority_renounced =
                                   set_if(@, log.mint_authority = "None"),
                               !.freeze_authority_renounced =
                                   set_if(@, log.freeze_authority = "None")]
                     /\ elapsed' = 0
                     /\ UNCHANGED pc
    /\ UNCHANGED <<ok, subscriptions, unsubscribed, codec_vars, diffs_vars>>

\* _ = tokio::time::sleep(Duration::from_secs(900)) => { .. }
sleep ==
    /\ pc = "select"
    /\ timer_fired(elapsed)
    /\ branch' = [arm |-> "sleep", log |-> NoLog]
    /\ checklist' = [checklist EXCEPT !.timeout = TRUE]
    /\ ok' = FALSE
    /\ pc' = "unsub"
    /\ UNCHANGED <<subscriptions, unsubscribed, elapsed, codec_vars, diffs_vars>>

\* time passes while select! waits, up to the end of the sleep
Tick ==
    /\ pc = "select"
    /\ ~timer_fired(elapsed)
    /\ elapsed' = Min(elapsed + TickSecs, TIMEOUT_SECS)
    /\ UNCHANGED <<pc, checklist, ok, subscriptions, unsubscribed, branch,
                   codec_vars, diffs_vars>>

\* mint_unsub().await; lp_unsub().await; sol_vault_unsub().await;
unsub ==
    /\ pc = "unsub"
    /\ LET closing == UnsubOrder[Len(unsubscribed) + 1]
       IN  /\ unsubscribed' = Append(unsubscribed, closing)
           /\ subscriptions' = SelectSeq(subscriptions, LAMBDA x : x # closing)
    /\ pc' = IF Len(unsubscribed') = Len(UnsubOrder) THEN "return" ELSE "unsub"
    /\ UNCHANGED <<checklist, ok, elapsed, branch, codec_vars, diffs_vars>>

\* Ok((ok, checklist))
Return ==
    /\ pc = "return"
    /\ pc' = "Ok"
    /\ UNCHANGED <<checklist, ok, subscriptions, unsubscribed, elapsed, branch,
                   codec_vars, diffs_vars>>

NextChecker ==
    \/ check_if_pump_fun \/ account_subscribe \/ get_multiple_accounts
    \/ lp_stream_next \/ sol_vault_stream_next \/ mint_stream_next
    \/ sleep \/ Tick \/ unsub \/ Return

SpecChecker == InitChecker /\ [][NextChecker]_vars

\* each unsub future and the return complete once the loop has ended
FairSpecChecker == SpecChecker /\ WF_vars(unsub) /\ WF_vars(Return)

----------------------------------------------------------------------------
(* process_diffs: the two token balance diffs of a swap.  An f64 amount is *)
(* an integer here, and a price the pair of a numerator and a denominator. *)

\* constants::WSOL_MINT_KEY_STR
WSOL_MINT_KEY_STR == "So11111111111111111111111111111111111111112"

\* the longest Vec<Diff> tried
MaxDiffs == 3

\* the diffs tried: the mint and the diff of each (pre_amount, post_amount
\* and owner are not read by process_diffs)
Diffs ==
    [ mint : {WSOL_MINT_KEY_STR, "coin", "other_coin"}, diff : {-2, -1, 0, 3} ]

\* f64::abs
abs(x) == IF x < 0 THEN -x ELSE x

\* is_buy taken from the sign of the SOL amount
process_diffs_SolSign(ds, price) ==
    IF Len(ds) # 2 THEN [kind |-> "Err", val |-> "Expected exactly 2 token balance diffs"]
    ELSE IF ds[1].mint # WSOL_MINT_KEY_STR /\ ds[2].mint # WSOL_MINT_KEY_STR
         THEN [kind |-> "Err", val |-> "Non-WSOL swap"]
         ELSE LET sol == IF ds[1].mint = WSOL_MINT_KEY_STR THEN 1 ELSE 2
              IN  [kind |-> "Ok",
                   val |-> [ price |-> [num |-> abs(ds[sol].diff) * price,
                                        den |-> abs(ds[3 - sol].diff)],
                             swap_amount |-> abs(ds[sol].diff) * price,
                             coin_mint |-> ds[3 - sol].mint,
                             is_buy |-> ds[sol].diff < 0 ]]

\* process_diffs(diffs, sol_price)
process_diffs(ds, price) ==
    IF Len(ds) # 2 THEN [kind |-> "Err", val |-> "Expected exactly 2 token balance diffs"]
    ELSE LET token0 == ds[1]
             token1 == ds[2]
             amount0 == token0.diff
             amount1 == token1.diff
             \* the match on the two mints, its arms tried in order
             arm == IF token0.mint = WSOL_MINT_KEY_STR THEN 1
                    ELSE IF token1.mint = WSOL_MINT_KEY_STR THEN 2
                    ELSE 3
             sol_amount == IF arm = 1 THEN amount0 ELSE amount1
             token_amount == IF arm = 1 THEN amount1 ELSE amount0
             coin_mint == IF arm = 1 THEN token1.mint ELSE token0.mint
             is_buy == token_amount < 0
             sol_amount_abs == abs(sol_amount)
             token_amount_abs == abs(token_amount)
         IN  IF arm = 3 THEN [kind |-> "Err", val |-> "Non-WSOL swap"]
             ELSE [kind |-> "Ok",
                   val |-> [ price |-> [num |-> sol_amount_abs * price,
                                        den |-> token_amount_abs],
                             swap_amount |-> sol_amount_abs * price,
                             coin_mint |-> coin_mint,
                             is_buy |-> is_buy ]]

InitDiffs ==
    /\ origin = "process_diffs"
    /\ step = "input"
    /\ command = Unit("none")
    /\ versioned_bytes = <<>>
    /\ result = Pending
    /\ repacked = <<>>
    /\ redecoded = Pending
    /\ call = [fn |-> "none", args |-> NoValue]
    /\ instruction = [program_id |-> "", data |-> <<>>, accounts |-> <<>>]
    /\ pc = "idle"
    /\ checklist = Checklist_default
    /\ ok = FALSE
    /\ subscriptions = <<>>
    /\ unsubscribed = <<>>
    /\ elapsed = 0
    /\ branch = NoBranch
    /\ \E n \in 0..MaxDiffs : diffs \in [1..n -> Diffs]
    /\ sol_price \in {2, 150}
    /\ diffs_result = Pending

\* let result = process_diffs(&diffs, sol_price)
ProcessDiffs ==
    /\ diffs_result = Pending
    /\ origin = "process_diffs"
    /\ diffs_result' = process_diffs(diffs, sol_price)
    /\ UNCHANGED <<diffs, sol_price, codec_vars, checker_vars>>

NextDiffs == ProcessDiffs

SpecDiffs == InitDiffs /\ [][NextDiffs]_vars

----------------------------------------------------------------------------
(* What the properties below read off a state.                             *)

\* unpack has returned for versioned_bytes
Unpacked == step \in {"unpacked", "repacked", "redecoded"}

\* versioned_bytes has come out of pack
Packed == origin = "command" /\ step # "input"

\* the envelope of a buffer of at least 5 bytes
VersionOf(b) == b[1]

DiscrimBytes(b) == SubSeq(b, 2, 5)

PayloadOf(b) == SubSeq(b, 6, Len(b))

\* the four bytes of a discriminant below 256
DiscrimCode(d) == <<d, 0, 0, 0>>

\* unpack has returned for a buffer with version 0 and discriminant d
Decoded(d) ==
    /\ Unpacked
    /\ Len(versioned_bytes) >= 5
    /\ VersionOf(versioned_bytes) = 0
    /\ DiscrimBytes(versioned_bytes) = DiscrimCode(d)

payload == PayloadOf(versioned_bytes)

\* the 8 bytes at offset off of b are all 0
ZeroAt(b, off) == \A j \in 1..8 : b[off + j] = 0

\* the little-endian bytes of i64::MAX
I64_MAX_BYTES == <<255, 255, 255, 255, 255, 255, 255, 127>>

\* the little-endian bytes of a count below 256
CountBytes(n) == <<n, 0, 0, 0, 0, 0, 0, 0>>

\* the payload lengths of the interface's table for the order commands
ArmLengthOk(d, len) ==
    CASE d = 1 -> len = 32
      [] d = 9 -> len = 36
      [] d = 10 -> len \in {46, 54}
      [] d = 13 -> len = 46
      [] d = 19 -> len = 54
      [] d = 20 -> len >= 8 /\ len % 54 = 8
      [] OTHER -> FALSE

IsLongList(c) == c.tag = "ReplaceOrdersByClientIds" /\ Len(c.v) > 8

----------------------------------------------------------------------------
(* C1.  Round trip.                                                        *)

\* C1 as stated: for every constructible command c of every variant,
\* ReplaceOrdersByClientIds with a list of any length included,
\* unpack(c.pack()) returns Some(c).
C1_RoundTripAnyLength ==
    (origin = "command" /\ Unpacked) => SameResult(result, Some(command))

\* C1 as amended: for every constructible command c whose
\* ReplaceOrdersByClientIds list, if it is one, has at most 8 orders,
\* unpack(c.pack()) returns Some(c); a longer list is packed to more than
\* 445 bytes and unpack returns None for it.
C1_RoundTrip ==
    (origin = "command" /\ Unpacked) =>
        IF IsLongList(command) THEN IsNone(result)
        ELSE SameResult(result, Some(command))

C1_Witness ==
    /\ origin = "command" /\ step = "unpacked"
    /\ command.tag = "ReplaceOrdersByClientIds" /\ Len(command.v) = 8
    /\ command.v[1] # command.v[2]
    /\ SameResult(result, Some(command))

----------------------------------------------------------------------------
(* C2.  No panic.                                                          *)

\* C2: for every byte sequence of every length, unpack ends with Some of a
\* command of one of the 21 variants or with None, never with a panic.
C2_NoPanic ==
    /\ Unpacked =>
          /\ IsSome(result) \/ IsNone(result)
          /\ IsSome(result) => \E i \in 1..Len(Variants) : result.val.tag = Variants[i]
    /\ step = "redecoded" => IsSome(redecoded) \/ IsNone(redecoded)

C2_Witness ==
    /\ origin = "wire" /\ step = "unpacked"
    /\ Len(versioned_bytes) = 0
    /\ IsNone(result)

----------------------------------------------------------------------------
(* C3.  Envelope bound.                                                    *)

\* C3: a buffer shorter than 5 bytes or longer than 5 + 8 + 54*8 = 445
\* bytes is rejected (None, not a panic of a later step), whatever its
\* version byte, discriminant and payload are.
C3_EnvelopeBound ==
    (Unpacked /\ (Len(versioned_bytes) < 5 \/ Len(versioned_bytes) > 445)) =>
        IsNone(result)

C3_Witness ==
    /\ origin = "wire" /\ step = "unpacked"
    /\ Len(versioned_bytes) = 5 + 8 + 54 * 9
    /\ VersionOf(versioned_bytes) = 0
    /\ DiscrimBytes(versioned_bytes) = DiscrimCode(20)
    /\ SubSeq(versioned_bytes, 6, 13) = CountBytes(9)
    /\ IsNone(result)

----------------------------------------------------------------------------
(* C4.  What pack writes.                                                  *)

\* the envelope of pack(command): version 0, then the index of the variant
\* as a little-endian u32
WellFormedHeader ==
    /\ Len(versioned_bytes) >= 5
    /\ VersionOf(versioned_bytes) = 0
    /\ \E d \in 0..20 :
          /\ Variants[d + 1] = command.tag
          /\ DiscrimBytes(versioned_bytes) = DiscrimCode(d)

\* C4 as stated: every buffer pack produces, for every constructible
\* command, has version byte 0, the little-endian discriminant, and a total
\* length in [5, 445].
C4_PackedEnvelopeAnyCommand ==
    Packed => WellFormedHeader /\ Len(versioned_bytes) \in 5..445

\* C4 as amended: every buffer pack produces has version byte 0 and the
\* little-endian discriminant; its total length is in [5, 445] for every
\* command whose ReplaceOrdersByClientIds list, if it is one, has at most 8
\* orders, and is 13 + 54*n, above 445, for a list of n > 8 orders.
C4_PackedEnvelope ==
    Packed =>
        /\ WellFormedHeader
        /\ IF IsLongList(command)
           THEN Len(versioned_bytes) = 13 + 54 * Len(command.v)
           ELSE Len(versioned_bytes) \in 5..445

C4_Witness ==
    /\ origin = "command" /\ step = "packed"
    /\ command.tag = "ReplaceOrdersByClientIds" /\ Len(command.v) = 8
    /\ Len(versioned_bytes) = 445
    /\ DiscrimBytes(versioned_bytes) = DiscrimCode(20)

----------------------------------------------------------------------------
(* C5.  Fixed payload lengths.                                             *)

\* the table of the interface: discriminant -> payload length
TableLen ==
    [d \in (0..9) \cup (11..17) \cup {19} |->
        <<34, 32, 2, 2, 53, 0, 8, 0, 0, 36, 0, 20, 8, 46, 0, 0, 2, 2, 0, 54>>[d + 1]]

\* C5: under a fixed-length discriminant (0-9, 11-17, 19) a buffer is
\* accepted only if its payload length is the table's value; a shorter or
\* longer payload is rejected.
C5_FixedLength ==
    \A d \in DOMAIN TableLen :
        (Decoded(d) /\ Len(payload) # TableLen[d]) => IsNone(result)

C5_Witness ==
    /\ Decoded(0) /\ step = "unpacked"
    /\ Len(payload) = 35
    /\ IsNone(result)
    /\ IsSome(unpack(SubSeq(versioned_bytes, 1, 5 + 34)))

----------------------------------------------------------------------------
(* C6.  The legacy shim of NewOrderV3.                                     *)

\* C6: under discriminant 10 a 46-byte payload p has the result of the
\* 54-byte payload p followed by the bytes of i64::MAX (the same command,
\* with max_ts = i64::MAX, or the same rejection), and a payload of any
\* length other than 46 and 54 is rejected.
C6_LegacyShim ==
    Decoded(10) =>
        /\ Len(payload) = 46 =>
              /\ SameResult(result, unpack(versioned_bytes \o I64_MAX_BYTES))
              /\ IsSome(result) =>
                    /\ result.val.tag = "NewOrderV3"
                    /\ to_le_bytes(result.val.v.max_ts) = I64_MAX_BYTES
        /\ Len(payload) \notin {46, 54} => IsNone(result)

C6_Witness ==
    /\ Decoded(10) /\ step = "unpacked"
    /\ Len(payload) = 46
    /\ IsSome(result)
    /\ result.val.v.max_ts = I64_MAX

----------------------------------------------------------------------------
(* C7.  The count of a batch.                                              *)

\* C7: under discriminant 20 a payload of length L is accepted only if
\* L % 54 = 8, L <= 8 + 8*54 and its first 8 bytes are the little-endian
\* u64 (L - 8) / 54; so 8 + 54*3 bytes under a count of 2 are rejected; and
\* a payload of the 8 bytes of count 0 decodes to the empty list.
C7_BatchCount ==
    Decoded(20) =>
        /\ IsSome(result) =>
              /\ Len(payload) % 54 = 8
              /\ Len(payload) <= 8 + 8 * 54
              /\ SubSeq(payload, 1, 8) = CountBytes((Len(payload) - 8) \div 54)
        /\ payload = CountBytes(0) =>
              /\ IsSome(result)
              /\ result.val.tag = "ReplaceOrdersByClientIds"
              /\ Len(result.val.v) = 0

C7_Witness ==
    /\ Decoded(20) /\ step = "unpacked"
    /\ Len(payload) = 8 + 54 * 3
    /\ SubSeq(payload, 1, 8) = CountBytes(2)
    /\ IsNone(result)
    /\ IsSome(unpack(SubSeq(versioned_bytes, 1, 5) \o CountBytes(3)
                        \o SubSeq(payload, 9, Len(payload))))

----------------------------------------------------------------------------
(* C8.  A batch is decoded in order, wholly or not at all.                 *)

\* the i-th 54-byte record of a discriminant-20 payload
RecordOf(b, i) == SubSeq(b, 8 + 54 * (i - 1) + 1, 8 + 54 * i)

\* C8: under discriminant 20 with a count n that agrees with the payload
\* length, either every record decodes as a NewOrderV3 and the result is the
\* list of the n decoded records in the order of the payload, or some record
\* fails and the buffer is rejected.
C8_BatchOrdered ==
    \A n \in 0..8 :
        (Decoded(20) /\ Len(payload) = 8 + 54 * n /\ SubSeq(payload, 1, 8) = CountBytes(n)) =>
            IF \A i \in 1..n : IsSome(NewOrderInstructionV3_unpack(RecordOf(payload, i)))
            THEN /\ IsSome(result)
                 /\ result.val.tag = "ReplaceOrdersByClientIds"
                 /\ Len(result.val.v) = n
                 /\ \A i \in 1..n :
                       result.val.v[i] = NewOrderInstructionV3_unpack(RecordOf(payload, i)).val
            ELSE IsNone(result)

C8_Witness ==
    /\ Decoded(20) /\ step = "unpacked"
    /\ Len(payload) = 8 + 54 * 3 /\ SubSeq(payload, 1, 8) = CountBytes(3)
    /\ IsSome(NewOrderInstructionV3_unpack(RecordOf(payload, 1)))
    /\ ~IsSome(NewOrderInstructionV3_unpack(RecordOf(payload, 2)))
    /\ IsSome(NewOrderInstructionV3_unpack(RecordOf(payload, 3)))
    /\ IsNone(result)

----------------------------------------------------------------------------
(* C9.  Padding of CancelOrdersByClientIds.                                *)

\* C9: under discriminant 18 a payload whose length is a multiple of 8 and
\* at most 64 is accepted and decodes to 8 slots, the first length/8 of
\* them the ids of the payload in order and the others 0; a payload of any
\* other length is rejected.
C9_Padding ==
    Decoded(18) =>
        IF Len(payload) % 8 = 0 /\ Len(payload) <= 64
        THEN /\ IsSome(result)
             /\ result.val.tag = "CancelOrdersByClientIds"
             /\ Len(result.val.v) = 8
             /\ \A i \in 1..8 :
                   to_le_bytes(result.val.v[i]) =
                       IF i <= Len(payload) \div 8
                       THEN SubSeq(payload, 8 * (i - 1) + 1, 8 * i)
                       ELSE CountBytes(0)
        ELSE IsNone(result)

C9_Witness ==
    /\ Decoded(18) /\ step = "unpacked"
    /\ Len(payload) = 24
    /\ IsSome(result)
    /\ result.val.v[1] = U64_B /\ result.val.v[2] = U64_ZERO /\ result.val.v[3] = U64_B
    /\ \A i \in 4..8 : result.val.v[i] = U64_ZERO

----------------------------------------------------------------------------
(* C10.  Nonzero fields.                                                   *)

\* the offsets in the payload of the fields declared nonzero
NonzeroOffsets(d, len) ==
    CASE d \in {1, 9} -> {4, 12}
      [] d \in {10, 13, 19} -> {4, 12, 20}
      [] d = 20 -> {8 + 54 * i + o : <<i, o>> \in (0..((len - 8) \div 54 - 1)) \X {4, 12, 20}}
      [] OTHER -> {}

\* C10: a buffer in which a field declared nonzero is 0 is rejected,
\* whatever the other fields are: limit_price and max_qty under 1 and 9;
\* limit_price, max_coin_qty and max_native_pc_qty_including_fees under 10,
\* 13 and 19 and in each record under 20.
C10_NonzeroEnforced ==
    \A d \in {1, 9, 10, 13, 19, 20} :
        (/\ Decoded(d)
         /\ ArmLengthOk(d, Len(payload))
         /\ \E off \in NonzeroOffsets(d, Len(payload)) : ZeroAt(payload, off)) =>
            IsNone(result)

C10_Witness ==
    /\ Decoded(13) /\ step = "unpacked"
    /\ Len(payload) = 46
    /\ SubSeq(payload, 1, 4) = DiscrimCode(1)
    /\ ~ZeroAt(payload, 4) /\ ~ZeroAt(payload, 12) /\ ZeroAt(payload, 20)
    /\ IsNone(result)

----------------------------------------------------------------------------
(* C11.  Enum codes.                                                       *)

\* the payload lengths accepted under discriminant d, by the interface
AcceptedLen(d, len) ==
    CASE d \in DOMAIN TableLen -> len = TableLen[d]
      [] d = 10 -> len \in {46, 54}
      [] d = 18 -> len % 8 = 0 /\ len <= 64
      [] d = 20 -> len % 54 = 8 /\ len <= 8 + 8 * 54
      [] OTHER -> FALSE

\* the enum fields of a single-record payload: <<offset, codes, field>>
EnumFields(d) ==
    CASE d = 1 -> {<<0, SideCodes, "side">>, <<20, OrderTypeCodes, "order_type">>}
      [] d = 9 -> {<<0, SideCodes, "side">>, <<20, OrderTypeCodes, "order_type">>,
                   <<32, SelfTradeBehaviorCodes, "self_trade_behavior">>}
      [] d \in {10, 19} -> {<<0, SideCodes, "side">>,
                            <<28, SelfTradeBehaviorCodes, "self_trade_behavior">>,
                            <<32, OrderTypeCodes, "order_type">>}
      [] d \in {4, 11, 13} -> {<<0, SideCodes, "side">>}
      [] OTHER -> {}

\* the 4 bytes at offset off of b are the little-endian u32 of a code
ValidCodeAt(b, off, codes) ==
    /\ b[off + 1] < Len(codes)
    /\ b[off + 2] = 0 /\ b[off + 3] = 0 /\ b[off + 4] = 0

\* C11: a buffer is rejected unless each of its Side, OrderType and
\* SelfTradeBehavior fields, read as a 4-byte little-endian integer, is a
\* code of its enum (a valid low byte under nonzero upper bytes is
\* rejected), and an accepted buffer decodes each such field to the variant
\* of the code that is in the buffer, never to a default.
C11_EnumRange ==
    /\ \A d \in {1, 4, 9, 10, 11, 13, 19} :
          (Decoded(d) /\ AcceptedLen(d, Len(payload))) =>
              \A f \in EnumFields(d) :
                  IF ValidCodeAt(payload, f[1], f[2])
                  THEN IsSome(result) => result.val.v[f[3]] = f[2][payload[f[1] + 1] + 1]
                  ELSE IsNone(result)
    /\ (Decoded(20) /\ AcceptedLen(20, Len(payload))) =>
          \A i \in 1..((Len(payload) - 8) \div 54) : \A f \in EnumFields(19) :
              IF ValidCodeAt(RecordOf(payload, i), f[1], f[2])
              THEN IsSome(result) =>
                      result.val.v[i][f[3]] = f[2][RecordOf(payload, i)[f[1] + 1] + 1]
              ELSE IsNone(result)

\* a NewOrderV3 whose self_trade_behavior is 256 and nothing else is wrong
C11_Witness ==
    /\ Decoded(10) /\ step = "unpacked"
    /\ Len(payload) = 54
    /\ SubSeq(payload, 29, 32) = <<0, 1, 0, 0>>
    /\ IsNone(result)
    /\ IsSome(unpack(SubSeq(versioned_bytes, 1, 33) \o <<0, 0, 0, 0>>
                        \o SubSeq(versioned_bytes, 38, 59)))

----------------------------------------------------------------------------
(* C12.  Version and discriminant.                                         *)

\* the four bytes of the discriminants 0..20
KnownDiscrimBytes == {DiscrimCode(d) : d \in 0..20}

\* C12: a buffer whose version byte is not 0 is rejected whatever follows
\* it, and a buffer whose 4-byte little-endian discriminant is not one of
\* 0..20 (256 + a known discriminant included) is rejected for every
\* payload length.
C12_Gating ==
    (Unpacked /\ Len(versioned_bytes) >= 5) =>
        /\ VersionOf(versioned_bytes) # 0 => IsNone(result)
        /\ DiscrimBytes(versioned_bytes) \notin KnownDiscrimBytes => IsNone(result)

\* SettleFunds with 1 in the second byte of its discriminant
C12_Witness ==
    /\ origin = "wire" /\ step = "unpacked"
    /\ versioned_bytes = <<0, 5, 1, 0, 0>>
    /\ IsNone(result)
    /\ IsSome(unpack(<<0, 5, 0, 0, 0>>))

----------------------------------------------------------------------------
(* C13.  Which versions are encoded.                                       *)

\* a builder has returned its instruction
Built == origin = "builder" /\ step # "input"

\* the discriminants of the older numbered variants: NewOrder,
\* CancelOrder, CancelOrderByClientId, NewOrderV2
OlderDiscrimBytes == {DiscrimCode(d) : d \in {1, 4, 6, 9}}

OlderVariants == {"NewOrder", "CancelOrder", "CancelOrderByClientId", "NewOrderV2"}

\* C13 as stated: no encoder output, of pack or of a builder, carries the
\* discriminant of an older numbered variant (1, 4, 6, 9).
C13_NoOlderDiscriminantEncoded ==
    (Packed \/ Built) => DiscrimBytes(versioned_bytes) \notin OlderDiscrimBytes

\* C13 as amended: no instruction builder produces the discriminant of an
\* older numbered variant; new_order produces NewOrderV3 (10), cancel_order
\* CancelOrderV2 (11) and cancel_order_by_client_order_id
\* CancelOrderByClientIdV2 (12).  pack itself encodes a value of an older
\* variant under that variant's discriminant (1, 4, 6 or 9).
C13_BuildersEncodeLatest ==
    /\ Built =>
          /\ DiscrimBytes(instruction.data) \notin OlderDiscrimBytes
          /\ call.fn = "new_order" => DiscrimBytes(instruction.data) = DiscrimCode(10)
          /\ call.fn = "cancel_order" => DiscrimBytes(instruction.data) = DiscrimCode(11)
          /\ call.fn = "cancel_order_by_client_order_id" =>
                DiscrimBytes(instruction.data) = DiscrimCode(12)
    /\ (Packed /\ command.tag \in OlderVariants) =>
          DiscrimBytes(versioned_bytes) \in OlderDiscrimBytes

C13_Witness ==
    /\ Built /\ step = "packed"
    /\ call.fn = "new_order"
    /\ Len(instruction.data) = 59
    /\ DiscrimBytes(instruction.data) = DiscrimCode(10)

----------------------------------------------------------------------------
(* C14.  pack is total.                                                    *)

\* the payload length of a command, by the interface's layout
PayloadLenOf(c) ==
    LET d == IndexOf(Variants, c.tag)
    IN  CASE d \in DOMAIN TableLen -> TableLen[d]
          [] d = 10 -> 54
          [] d = 18 -> 64
          [] d = 20 -> 8 + 54 * Len(c.v)

----------------------------------------------------------------------------
(* C15.  The reasons of a rejection.                                       *)

\* the discriminant of a buffer whose discriminant bytes are known
DiscrimOf(b) == b[2]

\* some Side, OrderType or SelfTradeBehavior code of a payload of accepted
\* length is out of range
BadEnumCode(d, p) ==
    IF d = 20
    THEN \E i \in 1..((Len(p) - 8) \div 54) : \E f \in EnumFields(19) :
            ~ValidCodeAt(RecordOf(p, i), f[1], f[2])
    ELSE \E f \in EnumFields(d) : ~ValidCodeAt(p, f[1], f[2])

\* one of the listed reasons holds for the buffer b
HasRejectionReason(b) ==
    \/ Len(b) < 5 \/ Len(b) > 445
    \/ VersionOf(b) # 0
    \/ DiscrimBytes(b) \notin KnownDiscrimBytes
    \/ ~AcceptedLen(DiscrimOf(b), Len(PayloadOf(b)))
    \/ \E off \in NonzeroOffsets(DiscrimOf(b), Len(PayloadOf(b))) :
          ZeroAt(PayloadOf(b), off)
    \/ BadEnumCode(DiscrimOf(b), PayloadOf(b))
    \/ /\ DiscrimOf(b) = 20
       /\ SubSeq(PayloadOf(b), 1, 8) # CountBytes((Len(PayloadOf(b)) - 8) \div 54)

\* C15: unpack rejects a buffer if and only if its version byte is not 0,
\* or its length is below 5 or above 445, or its discriminant is above 20,
\* or its payload length is not accepted under its discriminant, or a field
\* declared nonzero is 0, or a Side/OrderType/SelfTradeBehavior code is out
\* of range, or the count of discriminant 20 differs from the record count;
\* every other buffer is decoded.
C15_Taxonomy ==
    Unpacked =>
        IF HasRejectionReason(versioned_bytes) THEN IsNone(result) ELSE IsSome(result)

\* a batch of two records off the wire with no reason to reject it, and
\* the same batch with one byte of its count changed
C15_Witness ==
    /\ origin = "wire" /\ step = "unpacked"
    /\ Decoded(20) /\ Len(payload) = 8 + 54 * 2
    /\ ~HasRejectionReason(versioned_bytes)
    /\ IsSome(result)
    /\ HasRejectionReason(SubSeq(versioned_bytes, 1, 5) \o CountBytes(3)
                             \o SubSeq(payload, 9, Len(payload)))

----------------------------------------------------------------------------
(* C16.  InitializeMarket.                                                 *)

\* the little-endian integer in the n bytes at offset off of b, as limbs
LittleEndianAt(b, off, n) ==
    [i \in 1..(n \div 2) |-> b[off + 2 * i - 1] + 256 * b[off + 2 * i]]

\* C16: under discriminant 0 every 34-byte payload is accepted, the
\* all-zero one included, and its five fields are the little-endian
\* integers at offsets 0 (u64), 8 (u64), 16 (u16), 18 (u64) and 26 (u64).
C16_InitializeMarket ==
    (Decoded(0) /\ Len(payload) = 34) =>
        /\ IsSome(result)
        /\ result.val.tag = "InitializeMarket"
        /\ result.val.v.coin_lot_size = LittleEndianAt(payload, 0, 8)
        /\ result.val.v.pc_lot_size = LittleEndianAt(payload, 8, 8)
        /\ <<result.val.v.fee_rate_bps>> = LittleEndianAt(payload, 16, 2)
        /\ result.val.v.vault_signer_nonce = LittleEndianAt(payload, 18, 8)
        /\ result.val.v.pc_dust_threshold = LittleEndianAt(payload, 26, 8)

\* the all-zero payload off the wire decodes to five zero fields
C16_Witness ==
    /\ origin = "wire" /\ step = "unpacked"
    /\ Decoded(0) /\ Len(payload) = 34
    /\ \A i \in 1..34 : payload[i] = 0
    /\ IsSome(result)
    /\ result.val.v = [ coin_lot_size |-> U64_ZERO, pc_lot_size |-> U64_ZERO,
                        fee_rate_bps |-> 0, vault_signer_nonce |-> U64_ZERO,
                        pc_dust_threshold |-> U64_ZERO ]

----------------------------------------------------------------------------
(* C17.  At most 8 entries.                                                *)

\* a command holds at most 8 orders, or exactly 8 client id slots
WithinEightEntries(c) ==
    /\ c.tag = "ReplaceOrdersByClientIds" => Len(c.v) <= 8
    /\ c.tag = "CancelOrdersByClientIds" => Len(c.v) = 8

\* C17: every ReplaceOrdersByClientIds that unpack returns holds at most 8
\* orders and every CancelOrdersByClientIds exactly 8 slots; a payload that
\* implies a 9th entry (72 bytes under discriminant 18, 8 + 9*54 bytes under
\* discriminant 20) is rejected, not cut down to its first 8 entries.
C17_AtMostEight ==
    /\ (Unpacked /\ IsSome(result)) => WithinEightEntries(result.val)
    /\ (step = "redecoded" /\ IsSome(redecoded)) => WithinEightEntries(redecoded.val)
    /\ (Decoded(18) /\ Len(payload) = 72) => IsNone(result)
    /\ (Decoded(20) /\ Len(payload) = 8 + 9 * 54) => IsNone(result)

\* nine client ids are rejected although the first eight alone are accepted
C17_Witness ==
    /\ origin = "wire" /\ step = "unpacked"
    /\ Decoded(18) /\ Len(payload) = 72
    /\ IsNone(result)
    /\ IsSome(unpack(SubSeq(versioned_bytes, 1, 5 + 64)))

----------------------------------------------------------------------------
(* C18.  The accounts of initialize_market.                                *)

\* the builder fn has returned
Returned(fn) == Built /\ call.fn = fn

\* an account reference: key, writable or not, signer or not
Account(pubkey, is_writable, is_signer) ==
    [pubkey |-> pubkey, is_signer |-> is_signer, is_writable |-> is_writable]

\* the 10 accounts initialize_market always lists
FixedMarketAccounts(a) ==
    << Account(a.market, TRUE, FALSE), Account(a.req_q_pk, TRUE, FALSE),
       Account(a.event_q_pk, TRUE, FALSE), Account(a.bids_pk, TRUE, FALSE),
       Account(a.asks_pk, TRUE, FALSE), Account(a.coin_vault_pk, TRUE, FALSE),
       Account(a.pc_vault_pk, TRUE, FALSE), Account(a.coin_mint_pk, FALSE, FALSE),
       Account(a.pc_mint_pk, FALSE, FALSE),
       Account("SysvarRent111111111111111111111111111111111", FALSE, FALSE) >>

\* the authorities that are listed: the longest prefix of (market
\* authority, prune authority, consume-events authority) that is given
ListedAuthorities(a) ==
    IF ~IsSome(a.authority_pk) THEN <<>>
    ELSE IF ~IsSome(a.prune_authority_pk) THEN <<a.authority_pk.val>>
    ELSE IF ~IsSome(a.consume_events_authority_pk)
    THEN <<a.authority_pk.val, a.prune_authority_pk.val>>
    ELSE <<a.authority_pk.val, a.prune_authority_pk.val,
           a.consume_events_authority_pk.val>>

\* C18: the accounts of initialize_market are the 10 fixed accounts, then
\* the market authority if given, then the prune authority only if the
\* market authority is given too, then the consume-events authority only if
\* both others are given, each read-only and no signer; an authority given
\* without its prerequisite is left out, so that the list has 10 to 13
\* entries and its first 10 are always the same.
C18_NestedAuthorities ==
    Returned("initialize_market") =>
        LET listed == ListedAuthorities(call.args)
        IN  /\ Len(instruction.accounts) = 10 + Len(listed)
            /\ SubSeq(instruction.accounts, 1, 10) = FixedMarketAccounts(call.args)
            /\ \A i \in 1..Len(listed) :
                  instruction.accounts[10 + i] = Account(listed[i], FALSE, FALSE)

\* prune and consume-events authorities given without a market authority
C18_Witness ==
    /\ Returned("initialize_market") /\ step = "packed"
    /\ ~IsSome(call.args.authority_pk)
    /\ IsSome(call.args.prune_authority_pk)
    /\ IsSome(call.args.consume_events_authority_pk)
    /\ Len(instruction.accounts) = 10

----------------------------------------------------------------------------
(* C19.  The accounts of prune.                                            *)

\* C19: the accounts of prune are, in order, market (writable), bids
\* (writable), asks (writable), prune authority (signer), open orders
\* (read-only), open orders owner (read-only), event queue (writable), as
\* documented at MarketInstruction::Prune; only account 3 is a signer.
C19_PruneSchema ==
    Returned("prune") =>
        instruction.accounts =
            << Account(call.args.market, TRUE, FALSE),
               Account(call.args.bids, TRUE, FALSE),
               Account(call.args.asks, TRUE, FALSE),
               Account(call.args.prune_authority, FALSE, TRUE),
               Account(call.args.open_orders, FALSE, FALSE),
               Account(call.args.open_orders_owner, FALSE, FALSE),
               Account(call.args.event_q, TRUE, FALSE) >>

----------------------------------------------------------------------------
(* C20.  The accounts of consume_events.                                   *)

\* C20: the accounts of consume_events are the open-orders accounts,
\* writable and in the caller's order, whatever their number, then market
\* (writable), event queue (writable) and two read-only accounts, as
\* documented at MarketInstruction::ConsumeEvents; none is a signer.
C20_ConsumeEventsSchema ==
    Returned("consume_events") =>
        LET n == Len(call.args.open_orders_accounts)
        IN  /\ Len(instruction.accounts) = n + 4
            /\ \A i \in 1..n :
                  instruction.accounts[i] =
                      Account(call.args.open_orders_accounts[i], TRUE, FALSE)
            /\ instruction.accounts[n + 1] = Account(call.args.market, TRUE, FALSE)
            /\ instruction.accounts[n + 2] = Account(call.args.event_queue, TRUE, FALSE)
            /\ instruction.accounts[n + 3] =
                  Account(call.args.coin_fee_receivable_account, FALSE, FALSE)
            /\ instruction.accounts[n + 4] =
                  Account(call.args.pc_fee_receivable_account, FALSE, FALSE)

----------------------------------------------------------------------------
(* C22.  NewOrderV2 is NewOrder V1 with a self_trade_behavior.             *)

\* the same payload under another discriminant
Under(d, p) == <<0, d, 0, 0, 0>> \o p

\* C22: under discriminant 9 a 36-byte payload is accepted exactly when its
\* first 32 bytes are accepted under discriminant 1 and its last 4 bytes
\* are a SelfTradeBehavior code, and then side, limit_price, max_qty,
\* order_type and client_id are those of the V1 decode and
\* self_trade_behavior is the variant of the code.
C22_V2ExtendsV1 ==
    (Decoded(9) /\ Len(payload) = 36) =>
        LET v1 == unpack(Under(1, SubSeq(payload, 1, 32)))
        IN  /\ IsSome(result) <=>
                  IsSome(v1) /\ ValidCodeAt(payload, 32, SelfTradeBehaviorCodes)
            /\ IsSome(result) =>
                  /\ result.val.tag = "NewOrderV2"
                  /\ \A f \in {"side", "limit_price", "max_qty", "order_type", "client_id"} :
                        result.val.v[f] = v1.val.v[f]
                  /\ result.val.v.self_trade_behavior =
                        SelfTradeBehaviorCodes[payload[33] + 1]

\* an accepted V2 order with a nonzero client id and AbortTransaction
C22_Witness ==
    /\ origin = "wire" /\ step = "unpacked"
    /\ Decoded(9) /\ Len(payload) = 36
    /\ IsSome(result)
    /\ result.val.v.client_id = U64_MAX
    /\ result.val.v.self_trade_behavior = "AbortTransaction"
    /\ IsSome(unpack(Under(1, SubSeq(payload, 1, 32))))

----------------------------------------------------------------------------
(* C23.  The 46-byte shape belongs to discriminant 10 alone.               *)

\* C23: under discriminant 19 a 46-byte payload is rejected, and a 54-byte
\* payload is accepted exactly when it is accepted under discriminant 10,
\* with the same fields; under discriminant 20 a payload whose records are
\* not all of 54 bytes is rejected.
C23_ShimOnlyUnder10 ==
    /\ (Decoded(19) /\ Len(payload) = 46) => IsNone(result)
    /\ (Decoded(19) /\ Len(payload) = 54) =>
          LET v3 == unpack(Under(10, payload))
          IN  /\ IsSome(result) <=> IsSome(v3)
              /\ IsSome(result) =>
                    /\ result.val.tag = "ReplaceOrderByClientId"
                    /\ v3.val.tag = "NewOrderV3"
                    /\ result.val.v = v3.val.v
    /\ (Decoded(20) /\ Len(payload) >= 8 /\ (Len(payload) - 8) % 54 # 0) =>
          IsNone(result)

\* a 46-byte payload that discriminant 10 accepts, under discriminant 19
C23_Witness ==
    /\ origin = "wire" /\ step = "unpacked"
    /\ Decoded(19) /\ Len(payload) = 46
    /\ IsNone(result)
    /\ IsSome(unpack(Under(10, payload)))

----------------------------------------------------------------------------
(* C24.  The layout of the NewOrderV3 record.                              *)

\* the fields of the record in order, each with its offset and its width
V3Layout ==
    << [name |-> "side", off |-> 0, width |-> 4],
       [name |-> "limit_price", off |-> 4, width |-> 8],
       [name |-> "max_coin_qty", off |-> 12, width |-> 8],
       [name |-> "max_native_pc_qty_including_fees", off |-> 20, width |-> 8],
       [name |-> "self_trade_behavior", off |-> 28, width |-> 4],
       [name |-> "order_type", off |-> 32, width |-> 4],
       [name |-> "client_order_id", off |-> 36, width |-> 8],
       [name |-> "limit", off |-> 44, width |-> 2],
       [name |-> "max_ts", off |-> 46, width |-> 8] >>

\* the values the commands tried take in the k-th field
V3Values ==
    [k \in 1..Len(V3Layout) |-> {i[V3Layout[k].name] : i \in NewOrderInstructionsV3}]

\* the 54 bytes b hold the record i in the layout, each field little-endian
HoldsV3(b, i) ==
    /\ Len(b) = 54
    /\ LittleEndianAt(b, 0, 4) = <<IndexOf(SideCodes, i.side), 0>>
    /\ LittleEndianAt(b, 4, 8) = i.limit_price
    /\ LittleEndianAt(b, 12, 8) = i.max_coin_qty
    /\ LittleEndianAt(b, 20, 8) = i.max_native_pc_qty_including_fees
    /\ LittleEndianAt(b, 28, 4) =
          <<IndexOf(SelfTradeBehaviorCodes, i.self_trade_behavior), 0>>
    /\ LittleEndianAt(b, 32, 4) = <<IndexOf(OrderTypeCodes, i.order_type), 0>>
    /\ LittleEndianAt(b, 36, 8) = i.client_order_id
    /\ LittleEndianAt(b, 44, 2) = <<i.limit>>
    /\ LittleEndianAt(b, 46, 8) = i.max_ts

\* the bytes of a and b differ only inside the field f of the layout
DiffersOnlyIn(a, b, f) ==
    /\ Len(a) = Len(b)
    /\ \A j \in 1..Len(a) : a[j] # b[j] => (j > f.off /\ j <= f.off + f.width)

\* C24: the payload pack writes for a NewOrderV3 command, and every 54-byte
\* payload unpack accepts under discriminant 10, hold the nine fields at
\* offsets 0, 4, 12, 20, 28, 32, 36, 44, 46 with widths 4, 8, 8, 8, 4, 4,
\* 8, 2, 8, little-endian; a command that differs from the packed one in
\* one field packs to bytes that differ only inside that field.
C24_V3Layout ==
    /\ (Packed /\ command.tag = "NewOrderV3") =>
          /\ HoldsV3(payload, command.v)
          /\ step = "packed" =>
             \A k \in 1..Len(V3Layout) :
                \A value \in V3Values[k] :
                    DiffersOnlyIn(
                        PayloadOf(pack(Instr("NewOrderV3",
                            [command.v EXCEPT ![V3Layout[k].name] = value]))),
                        payload, V3Layout[k])
    /\ (Decoded(10) /\ Len(payload) = 54 /\ IsSome(result)) =>
          HoldsV3(payload, result.val.v)

\* a packed NewOrderV3 with a nonzero limit and a 64-bit max_ts, and
\* another command that differs from it in max_ts alone
C24_Witness ==
    /\ Packed /\ step = "packed" /\ command.tag = "NewOrderV3"
    /\ command.v.limit = 513 /\ command.v.max_ts = I64_MAX
    /\ command.v.side = "Ask"
    /\ \E other \in NewOrderInstructionsV3 :
          /\ other.max_ts # command.v.max_ts
          /\ [other EXCEPT !.max_ts = command.v.max_ts] = command.v
          /\ pack(Instr("NewOrderV3", other)) # versioned_bytes

----------------------------------------------------------------------------
(* C25.  Decoding then encoding again.                                     *)

\* versioned_bytes is one of the two shorter shapes unpack accepts
IsLegacyShape ==
    \/ Decoded(10) /\ Len(payload) = 46
    \/ Decoded(18) /\ Len(payload) < 64

\* C25: for an accepted buffer, pack of the decoded command is the buffer
\* itself, unless the buffer has discriminant 10 with 46 payload bytes or
\* discriminant 18 with fewer than 64 payload bytes; then the bytes packed
\* have 54, respectively 64, payload bytes under the same envelope and
\* decode to the same command.
C25_RepackIdentity ==
    (origin = "wire" /\ step \in {"repacked", "redecoded"}) =>
        IF IsLegacyShape
        THEN /\ SubSeq(repacked, 1, 5) = SubSeq(versioned_bytes, 1, 5)
             /\ Len(PayloadOf(repacked)) = IF Decoded(10) THEN 54 ELSE 64
             /\ SameResult(unpack(repacked), result)
             /\ step = "redecoded" => SameResult(redecoded, result)
        ELSE repacked = versioned_bytes

\* two client ids on the wire under discriminant 18, packed again as eight
C25_Witness ==
    /\ origin = "wire" /\ step = "redecoded"
    /\ Decoded(18) /\ Len(payload) = 16
    /\ Len(PayloadOf(repacked)) = 64
    /\ SubSeq(PayloadOf(repacked), 1, 16) = payload
    /\ ~ZeroAt(payload, 8)
    /\ IsSome(redecoded)

\* a batch of two orders on the wire that packs back to itself
C25_WitnessIdentity ==
    /\ origin = "wire" /\ step = "repacked"
    /\ Decoded(20) /\ Len(payload) = 8 + 2 * 54
    /\ repacked = versioned_bytes

----------------------------------------------------------------------------
(* C26.  Fields that are not validated.                                    *)

\* the fields of one NewOrderV3 record that are neither an enum nor
\* declared nonzero: client_order_id, limit and, in the 54-byte shape, max_ts
FreeFieldsV3(len) ==
    IF len = 54 THEN {<<36, 8>>, <<44, 2>>, <<46, 8>>} ELSE {<<36, 8>>, <<44, 2>>}

\* <<offset, width>> of the payload fields that are neither an enum nor
\* declared nonzero
FreeFields(d, len) ==
    CASE d \in {1, 9} -> {<<24, 8>>}
      [] d \in {2, 3, 16, 17} -> {<<0, 2>>}
      [] d = 4 -> {<<4, 16>>, <<20, 32>>, <<52, 1>>}
      [] d \in {6, 12} -> {<<0, 8>>}
      [] d \in {10, 19} -> FreeFieldsV3(len)
      [] d = 11 -> {<<4, 16>>}
      [] d = 13 -> {<<28, 8>>, <<36, 8>>, <<44, 2>>}
      [] d = 20 -> {<<8 + 54 * i + f[1], f[2]>> :
                        <<i, f>> \in (0..((len - 8) \div 54 - 1)) \X FreeFieldsV3(54)}
      [] OTHER -> {}

\* values of a field of the given width in bytes: 0, 1, the greatest
\* (-1 when signed), the least signed one, and the greatest signed one
FieldValues(width) ==
    { [j \in 1..width |-> 0],
      [j \in 1..width |-> IF j = 1 THEN 1 ELSE 0],
      [j \in 1..width |-> 255],
      [j \in 1..width |-> IF j = width THEN 128 ELSE 0],
      [j \in 1..width |-> IF j = width THEN 127 ELSE 255] }

\* the buffer b with the payload bytes at offset off replaced by value
Overwrite(b, off, value) ==
    [j \in 1..Len(b) |->
        IF j > 5 + off /\ j <= 5 + off + Len(value) THEN value[j - 5 - off] ELSE b[j]]

\* C26: an accepted buffer stays accepted when client_id or
\* client_order_id, limit, max_ts, min_coin_qty, min_native_pc_qty,
\* order_id, the owner words or owner_slot of CancelOrder, or the u16 limit
\* of discriminants 2, 3, 16 and 17 is replaced by 0, by 1, by the
\* all-ones value, or by the least or greatest signed value.
C26_FreeFields ==
    \A d \in {1, 2, 3, 4, 6, 9, 10, 11, 12, 13, 16, 17, 19, 20} :
        (Decoded(d) /\ step = "unpacked" /\ IsSome(result)) =>
            \A f \in FreeFields(d, Len(payload)) :
                \A value \in FieldValues(f[2]) :
                    IsSome(unpack(Overwrite(versioned_bytes, f[1], value)))

\* an order accepted off the wire with a negative max_ts, whose
\* client_order_id is then set to 0
C26_Witness ==
    /\ origin = "wire" /\ step = "unpacked"
    /\ Decoded(10) /\ Len(payload) = 54
    /\ IsSome(result)
    /\ result.val.v.max_ts[4] >= 32768
    /\ ~IsZero(result.val.v.client_order_id)
    /\ LET cleared == unpack(Overwrite(versioned_bytes, 36, CountBytes(0)))
       IN  IsSome(cleared) /\ IsZero(cleared.val.v.client_order_id)

----------------------------------------------------------------------------
(* What the properties of run_checks read off a state.                     *)

\* the three flags of the checklist c are set
AllFlags(c) ==
    c.lp_burnt /\ c.mint_authority_renounced /\ c.freeze_authority_renounced

\* at least 6.9 SOL, in whole SOL and billionths
AtLeast6_9(whole, billionths) ==
    whole > 6 \/ (whole = 6 /\ billionths >= 900000000)

\* the loop has ended with a value
LoopEnded == pc \in {"unsub", "return"} \/ (pc = "Ok" /\ ~checklist.is_pump_fun)

----------------------------------------------------------------------------
(* C21.  What ok = true means.                                             *)

\* C21: when run_checks returns ok = true the token is not a pump fun, the
\* last branch taken was a vault notification of at least 6.9 SOL, which
\* is the sol_pooled of the checklist, the three flags are true and timeout
\* is false; for a pump fun it returns ok = false with no subscription ever
\* opened.
C21_OkMeansAllChecks ==
    /\ (pc = "Ok" /\ ok) =>
          /\ ~checklist.is_pump_fun
          /\ branch.arm = "sol_vault"
          /\ AtLeast6_9(branch.log.lamports.billions, branch.log.lamports.rest)
          /\ AtLeast6_9(checklist.sol_pooled.whole, checklist.sol_pooled.nanos)
          /\ AllFlags(checklist)
          /\ ~checklist.timeout
    /\ checklist.is_pump_fun =>
          /\ pc = "Ok" /\ ~ok
          /\ subscriptions = <<>> /\ unsubscribed = <<>>
          /\ branch = NoBranch

\* returned with ok = true on a vault notification of exactly 6.9 SOL
C21_Witness ==
    /\ pc = "Ok" /\ ok
    /\ checklist.sol_pooled = [whole |-> 6, nanos |-> 900000000]
    /\ AllFlags(checklist)

----------------------------------------------------------------------------
(* C27.  The ways out of the wait loop.                                    *)

\* one step taken inside the loop
C27_Step ==
    pc = "select" =>
        \* the loop ends with a value on a vault notification or on the sleep
        /\ pc' = "unsub" =>
              \/ /\ branch'.arm = "sol_vault"
                 /\ IF ok'
                    THEN /\ AtLeast6_9(branch'.log.lamports.billions,
                                       branch'.log.lamports.rest)
                         /\ AllFlags(checklist)
                    ELSE ~AtLeast6_9(branch'.log.lamports.billions,
                                     branch'.log.lamports.rest)
                 /\ ~checklist'.timeout
              \/ /\ branch'.arm = "sleep"
                 /\ ~ok' /\ checklist'.timeout
        /\ pc' \in {"select", "unsub", "Panic"}
        \* a vault notification of at least 6.9 SOL with a flag missing, and
        \* every LP or mint notification that decodes, stays in the loop
        /\ (pc' # "Panic" /\ branch'.arm \in {"lp", "mint"}) => pc' = "select"
        \* the sleep completes only 900 seconds after the last restart
        /\ branch'.arm = "sleep" => elapsed >= TIMEOUT_SECS
        \* staying in the loop, either time has passed and nothing else
        \* has changed, or a notification has restarted the timer
        /\ pc' = "select" =>
              \/ elapsed' = 0
              \/ /\ elapsed' > elapsed /\ elapsed' <= TIMEOUT_SECS
                 /\ UNCHANGED <<checklist, branch, ok>>

C27_WitnessWaiting ==
    /\ pc = "select"
    /\ AllFlags(checklist)
    /\ branch.arm = "mint" /\ branch.log.data = "account"
    /\ elapsed > 0

----------------------------------------------------------------------------
(* C28.  The flags are sticky.                                             *)

\* C28: once lp_burnt, mint_authority_renounced or
\* freeze_authority_renounced is true, it is true after every step of
\* run_checks, whatever notification the step handles.
C28_StickyFlags ==
    [][/\ checklist.lp_burnt => checklist'.lp_burnt
       /\ checklist.mint_authority_renounced => checklist'.mint_authority_renounced
       /\ checklist.freeze_authority_renounced => checklist'.freeze_authority_renounced]_vars

\* lp_burnt still set after an LP notification of a non-zero amount, and
\* the two authority flags set at the start
C28_Witness ==
    /\ pc = "select"
    /\ branch.arm = "lp" /\ branch.log.data = "account" /\ branch.log.amount # 0
    /\ AllFlags(checklist)

\* the authority flags still set after a mint notification with both
\* authorities present
C28_WitnessMint ==
    /\ pc = "select"
    /\ branch.arm = "mint" /\ branch.log.data = "account"
    /\ branch.log.mint_authority = "Some" /\ branch.log.freeze_authority = "Some"
    /\ checklist.mint_authority_renounced /\ checklist.freeze_authority_renounced

----------------------------------------------------------------------------
(* C29.  The subscriptions are closed.                                     *)

\* C29: once the loop has ended with a value, the unsub calls made so far
\* are the first of mint, LP, SOL vault in this order, all three have been
\* made and no subscription is open when the function returns, and the
\* function does return.
C29_Unsubscribed ==
    /\ [](LoopEnded =>
            /\ unsubscribed = SubSeq(<<"mint", "lp", "sol_vault">>, 1, Len(unsubscribed))
            /\ pc \in {"return", "Ok"} =>
                  Len(unsubscribed) = 3 /\ subscriptions = <<>>)
    /\ (pc = "unsub") ~> (pc = "Ok")

\* returned with ok = false after a vault notification below 6.9 SOL, the
\* three subscriptions closed
C29_Witness ==
    /\ pc = "Ok" /\ ~ok
    /\ branch.arm = "sol_vault"
    /\ ~checklist.timeout
    /\ unsubscribed = <<"mint", "lp", "sol_vault">>
    /\ subscriptions = <<>>

----------------------------------------------------------------------------
(* C30.  process_diffs.                                                    *)

\* process_diffs has returned
DiffsDone == diffs_result.kind \in {"Ok", "Err"}

\* C30: process_diffs returns an error unless it is given exactly 2 diffs
\* of which at least one has the WSOL mint; when it returns Ok, one diff
\* has the WSOL mint, coin_mint is the mint of the other and is_buy is true
\* exactly when the diff of the other is below 0; for two diffs with
\* different mints the two orders give the same result.
C30_ProcessDiffs ==
    DiffsDone =>
        /\ ~(Len(diffs) = 2 /\ \E i \in 1..2 : diffs[i].mint = WSOL_MINT_KEY_STR) =>
              diffs_result.kind = "Err"
        /\ diffs_result.kind = "Ok" =>
              \E i \in 1..2 :
                  /\ diffs[i].mint = WSOL_MINT_KEY_STR
                  /\ diffs_result.val.coin_mint = diffs[3 - i].mint
                  /\ diffs_result.val.is_buy <=> diffs[3 - i].diff < 0
        /\ (Len(diffs) = 2 /\ diffs[1].mint # diffs[2].mint) =>
              LET swapped == process_diffs(<<diffs[2], diffs[1]>>, sol_price)
              IN  /\ swapped.kind = diffs_result.kind
                  /\ swapped.kind = "Ok" => swapped.val = diffs_result.val

\* a buy with the WSOL diff second: the coin diff is negative and the WSOL
\* diff positive
C30_Witness ==
    /\ diffs_result.kind = "Ok"
    /\ diffs[1].mint = "coin" /\ diffs[1].diff < 0
    /\ diffs[2].mint = WSOL_MINT_KEY_STR /\ diffs[2].diff > 0
    /\ diffs_result.val.is_buy
    /\ diffs_result.val.coin_mint = "coin"

====
